---- MODULE Spec2Model ----
(***************************************************************************)
(* Model of the coredatastore-swagger-mcp server (src/src/index.js, with   *)
(* the stdio variant of the same class in src/unnamed/part_014).           *)
(*                                                                         *)
(* Strings that the code searches or rewrites (paths, URLs, argument keys  *)
(* and values, tool names) are sequences of symbols; a symbol is one       *)
(* indivisible piece of text ("/", "{", "widgets", "7").  JavaScript       *)
(* values are records with a type tag, so that the coercions String(v),    *)
(* v || '' and !v are computed as the language computes them.              *)
(***************************************************************************)
EXTENDS Integers, Sequences, FiniteSets, TLC

(***************************************************************************)
(* Bounds of the model.                                                    *)
(***************************************************************************)
\* largest number of keys of an argument object
MaxArgs == 2

(***************************************************************************)
(* JavaScript values.                                                      *)
(***************************************************************************)
JsVal(t, s, n, b) == [t |-> t, s |-> s, n |-> n, b |-> b]
Undef   == JsVal("undefined", <<>>, 0, FALSE)
Null    == JsVal("null", <<>>, 0, FALSE)
Str(s)  == JsVal("string", s, 0, FALSE)
Num(n)  == JsVal("number", <<>>, n, FALSE)
Bool(b) == JsVal("boolean", <<>>, 0, b)

\* ToBoolean: undefined, null, NaN, '', 0 and false are falsy
Truthy(v) ==
  CASE v.t = "string"  -> v.s # <<>>
    [] v.t = "number"  -> v.n # 0
    [] v.t = "boolean" -> v.b
    [] v.t \in {"object", "array", "infinity"} -> TRUE
    [] OTHER           -> FALSE

Digit(d) == <<"0", "1", "2", "3", "4", "5", "6", "7", "8", "9">>[d + 1]

RECURSIVE Digits(_)
\* decimal text of a natural number
Digits(n) == IF n < 10 THEN <<Digit(n)>> ELSE Digits(n \div 10) \o <<Digit(n % 10)>>

\* String(v)
ToStr(v) ==
  CASE v.t = "string"    -> v.s
    [] v.t = "number"    -> Digits(v.n)
    [] v.t = "boolean"   -> IF v.b THEN <<"true">> ELSE <<"false">>
    [] v.t = "null"      -> <<"null">>
    [] v.t = "nan"       -> <<"NaN">>
    [] v.t = "infinity"  -> <<"Infinity">>
    [] OTHER             -> <<"undefined">>

\* v || ''
OrEmpty(v) == IF Truthy(v) THEN v ELSE Str(<<>>)

(***************************************************************************)
(* String operations.                                                      *)
(***************************************************************************)
\* t occurs in s starting at position i
OccursAt(s, t, i) ==
  /\ i >= 1
  /\ i + Len(t) - 1 <= Len(s)
  /\ \A j \in 1..Len(t) : s[i + j - 1] = t[j]

\* position of the first occurrence of t in s, 0 when there is none
IndexOf(s, t) ==
  IF \E i \in 1..Len(s) : OccursAt(s, t, i)
  THEN CHOOSE i \in 1..Len(s) :
         OccursAt(s, t, i) /\ \A j \in 1..(i - 1) : ~OccursAt(s, t, j)
  ELSE 0

\* s.includes(t), t not empty
Includes(s, t) == IndexOf(s, t) # 0

\* s.replace(t, r) with a string pattern: the first occurrence only
ReplaceFirst(s, t, r) ==
  LET i == IndexOf(s, t)
  IN IF i = 0 THEN s
     ELSE SubSeq(s, 1, i - 1) \o r \o SubSeq(s, i + Len(t), Len(s))

\* `{${key}}`
Placeholder(key) == <<"{">> \o key \o <<"}">>

\* s.toLowerCase() / s.toUpperCase() on one symbol
LowerSym(c) ==
  CASE c = "GET" -> "get" [] c = "POST" -> "post" [] c = "PUT" -> "put"
    [] c = "DELETE" -> "delete" [] c = "PATCH" -> "patch" [] OTHER -> c
UpperSym(c) ==
  CASE c = "get" -> "GET" [] c = "post" -> "POST" [] c = "put" -> "PUT"
    [] c = "delete" -> "DELETE" [] c = "patch" -> "PATCH" [] OTHER -> c
ToLowerCase(s) == [i \in 1..Len(s) |-> LowerSym(s[i])]
ToUpperCase(s) == [i \in 1..Len(s) |-> UpperSym(s[i])]

\* application/x-www-form-urlencoded serialisation of one symbol
EncodeSym(c) ==
  CASE c = "/" -> <<"%2F">> [] c = "{" -> <<"%7B">> [] c = "}" -> <<"%7D">>
    [] OTHER -> <<c>>

RECURSIVE Encode(_)
Encode(s) == IF s = <<>> THEN <<>> ELSE EncodeSym(Head(s)) \o Encode(Tail(s))

(***************************************************************************)
(* Argument objects.  An object is the sequence of its entries in key      *)
(* order (Object.keys); `present` is FALSE for a null or undefined args.   *)
(***************************************************************************)
Entry(k, v) == [k |-> k, v |-> v]
ArgsObj(kv) == [present |-> TRUE, kv |-> kv]
NoArgs      == [present |-> FALSE, kv |-> <<>>]

\* const API_BASE_URL
API_BASE_URL == <<"https://api.coredatastore.com">>

(***************************************************************************)
(* Errors.  kind tells where the error was raised; an "http" error carries *)
(* the status of the response in its message.                              *)
(***************************************************************************)
Err(kind, status) == [kind |-> kind, status |-> status]
NoErr == Err("none", 0)

\* the upstream request handed to fetch(url, options)
HttpRequest(url, method, hasBody, body) ==
  [url |-> url, method |-> method, hasBody |-> hasBody, body |-> body]
NoRequest == HttpRequest(<<>>, <<>>, FALSE, <<>>)

\* what the synchronous part of a handler did up to its fetch: it either
\* threw, or issued one upstream request
Built(threw, req) == [threw |-> threw, req |-> req]

(***************************************************************************)
(* executeApiCall(path, method, args), up to the fetch.                    *)
(***************************************************************************)
RECURSIVE ExecSubstitute(_, _, _)
\* Object.keys(args).forEach: replace a placeholder of the path in the url
ExecSubstitute(url, path, kv) ==
  IF kv = <<>> THEN url
  ELSE LET key == Head(kv).k
           paramValue == ToStr(OrEmpty(Head(kv).v))
       IN ExecSubstitute(
            IF Includes(path, Placeholder(key))
            THEN ReplaceFirst(url, Placeholder(key), paramValue)
            ELSE url,
            path, Tail(kv))

RECURSIVE QueryString(_, _)
\* URLSearchParams of the arguments that are no placeholder of the path
QueryString(path, kv) ==
  IF kv = <<>> THEN <<>>
  ELSE LET e == Head(kv)
           rest == QueryString(path, Tail(kv))
       IN IF Includes(path, Placeholder(e.k))
          THEN rest
          ELSE Encode(e.k) \o <<"=">> \o Encode(ToStr(OrEmpty(e.v)))
               \o (IF rest = <<>> THEN <<>> ELSE <<"&">> \o rest)

\* a variant that does not filter the path parameters out of the body
BodyArgsUnfiltered(path, kv) == kv

\* bodyArgs: the arguments that are no placeholder of the path
BodyArgs(path, kv) ==
  SelectSeq(kv, LAMBDA e : ~Includes(path, Placeholder(e.k)))

\* url += `?${queryString}` when the method is GET and the string is not empty
WithQuery(url, path, method, kv) ==
  LET queryString == QueryString(path, kv)
  IN IF ToLowerCase(method) = <<"get">> /\ queryString # <<>>
     THEN url \o <<"?">> \o queryString
     ELSE url

\* options: method upper-cased, body only for a non-GET with body arguments
RequestOf(url, path, method, kv) ==
  LET bodyArgs == IF ToLowerCase(method) # <<"get">> THEN BodyArgs(path, kv) ELSE <<>>
  IN HttpRequest(WithQuery(url, path, method, kv), ToUpperCase(method),
                 Len(bodyArgs) > 0, bodyArgs)

\* the try block of executeApiCall down to the fetch; path and method are
\* JavaScript values, on which includes and toLowerCase throw a TypeError
\* when they are not strings
ExecBuild(path, method, args) ==
  LET kv == IF args.present THEN args.kv ELSE <<>>
  IN IF (path.t # "string" /\ Len(kv) > 0) \/ method.t # "string"
     THEN Built(TRUE, NoRequest)
     ELSE LET p   == IF path.t = "string" THEN path.s ELSE <<>>
              url == ExecSubstitute(API_BASE_URL \o ToStr(path), p, kv)
          IN Built(FALSE, RequestOf(url, p, method.s, kv))

(***************************************************************************)
(* The mcp.callTool branch of POST /mcp and the CallTool request handler,  *)
(* up to the fetch: the same construction, with the replace not guarded by *)
(* path.includes.                                                          *)
(***************************************************************************)
RECURSIVE Substitute(_, _)
Substitute(url, kv) ==
  IF kv = <<>> THEN url
  ELSE Substitute(ReplaceFirst(url, Placeholder(Head(kv).k), ToStr(OrEmpty(Head(kv).v))),
                  Tail(kv))

\* path and method are the truthy strings of the tool's metadata
McpBuild(path, method, toolArgs) ==
  RequestOf(Substitute(API_BASE_URL \o path, toolArgs), path, method, toolArgs)

(***************************************************************************)
(* The Swagger document: paths is the sequence of its (path, path item)    *)
(* entries, a path item the sequence of its (key, operation) entries.      *)
(***************************************************************************)
\* a parameter; type "" stands for a parameter without schema.type
Param(name, in, required, type) ==
  [name |-> name, in |-> in, required |-> required, type |-> type]

\* requestBody: kind "none" (no requestBody), "other" (no application/json
\* content), "noschema" (application/json content without schema), "schema"
NoBody == [kind |-> "none", hasProps |-> FALSE, props |-> <<>>,
           hasRequired |-> FALSE, required |-> <<>>]
OtherBody == [NoBody EXCEPT !.kind = "other"]
NoSchemaBody == [NoBody EXCEPT !.kind = "noschema"]
SchemaBody(props, hasRequired, required) ==
  [kind |-> "schema", hasProps |-> TRUE, props |-> props,
   hasRequired |-> hasRequired, required |-> required]

Operation(operationId, hasParameters, parameters, requestBody) ==
  [operationId |-> operationId, hasParameters |-> hasParameters,
   parameters |-> parameters, requestBody |-> requestBody]

PathEntry(path, item) == [path |-> path, item |-> item]
ItemEntry(key, op) == [key |-> key, op |-> op]

SwaggerDoc(hasPaths, paths) == [isNull |-> FALSE, hasPaths |-> hasPaths, paths |-> paths]
NullDoc == [isNull |-> TRUE, hasPaths |-> FALSE, paths |-> <<>>]

HttpVerbs == {"get", "post", "put", "delete", "patch"}

(***************************************************************************)
(* buildTools                                                              *)
(***************************************************************************)
\* path.replace(/\//g, '_').replace(/[{}]/g, '')
RECURSIVE PathToName(_)
PathToName(path) ==
  IF path = <<>> THEN <<>>
  ELSE (CASE Head(path) = "/" -> <<"_">>
          [] Head(path) \in {"{", "}"} -> <<>>
          [] OTHER -> <<Head(path)>>) \o PathToName(Tail(path))

\* operation.operationId || `${method}_${...}`
ToolName(path, method, operation) ==
  IF Truthy(operation.operationId) THEN operation.operationId.s
  ELSE <<method, "_">> \o PathToName(path)

\* properties[name] = {type}: a new key is appended, an existing one replaced
PutProperty(properties, name, type) ==
  IF \E i \in 1..Len(properties) : properties[i].name = name
  THEN [i \in 1..Len(properties) |->
          IF properties[i].name = name THEN [name |-> name, type |-> type]
          ELSE properties[i]]
  ELSE Append(properties, [name |-> name, type |-> type])

\* schema.type || 'string'
TypeOrString(type) == IF type = "" THEN "string" ELSE type

InputSchema(properties, required) == [properties |-> properties, required |-> required]

RECURSIVE ParamsSchema(_, _)
\* operation.parameters.forEach: path and query parameters only
ParamsSchema(parameters, acc) ==
  IF parameters = <<>> THEN acc
  ELSE LET param == Head(parameters)
       IN ParamsSchema(Tail(parameters),
            IF param.in \in {"path", "query"}
            THEN InputSchema(
                   PutProperty(acc.properties, param.name, TypeOrString(param.type)),
                   IF param.required THEN Append(acc.required, param.name)
                   ELSE acc.required)
            ELSE acc)

RECURSIVE BodyProperties(_, _)
BodyProperties(props, properties) ==
  IF props = <<>> THEN properties
  ELSE BodyProperties(Tail(props),
         PutProperty(properties, Head(props).name, TypeOrString(Head(props).type)))

RECURSIVE BodyRequired(_, _)
\* if (!required.includes(prop)) required.push(prop)
BodyRequired(names, required) ==
  IF names = <<>> THEN required
  ELSE BodyRequired(Tail(names),
         IF \E i \in 1..Len(required) : required[i] = Head(names) THEN required
         ELSE Append(required, Head(names)))

\* schema.properties of an application/json content without schema: TypeError
OperationThrows(operation) == operation.requestBody.kind = "noschema"

OperationSchema(operation) ==
  LET fromParams == IF operation.hasParameters
                    THEN ParamsSchema(operation.parameters, InputSchema(<<>>, <<>>))
                    ELSE InputSchema(<<>>, <<>>)
      body == operation.requestBody
  IN IF body.kind = "schema" /\ body.hasProps
     THEN InputSchema(BodyProperties(body.props, fromParams.properties),
                      IF body.hasRequired
                      THEN BodyRequired(body.required, fromParams.required)
                      ELSE fromParams.required)
     ELSE fromParams

Metadata(path, method) == [path |-> path, method |-> method]
Tool(name, metadata) == [name |-> name, metadata |-> metadata]
Registration(name, inputSchema) == [name |-> name, inputSchema |-> inputSchema]

\* the (path, key, operation) triples in Object.entries order
RECURSIVE ItemOperations(_, _)
ItemOperations(path, item) ==
  IF item = <<>> THEN <<>>
  ELSE <<[path |-> path, key |-> Head(item).key, op |-> Head(item).op]>>
       \o ItemOperations(path, Tail(item))

RECURSIVE AllOperations(_)
AllOperations(paths) ==
  IF paths = <<>> THEN <<>>
  ELSE ItemOperations(Head(paths).path, Head(paths).item) \o AllOperations(Tail(paths))

\* if (!['get', 'post', 'put', 'delete', 'patch'].includes(method)) continue
IsHttpMethod(key) == key \in HttpVerbs

\* the result of buildTools: it threw or completed; createdTools; the tools
\* registered with the McpServer on the way
BuildResult(threw, tools, registered) ==
  [threw |-> threw, tools |-> tools, registered |-> registered]

\* the name is one this.server.tool was given before
AlreadyRegistered(registrations, name) ==
  \E i \in 1..Len(registrations) : registrations[i].name = name

RECURSIVE BuildLoop(_, _, _)
\* the loop of buildTools: it ends at the first operation on which reading
\* the schema or registering the tool throws.  this.server.tool belongs to
\* the SDK: rejecting says whether it throws 'Tool ... is already
\* registered' for a name it was given before, or records every call
BuildLoop(ops, acc, rejecting) ==
  IF ops = <<>> THEN acc
  ELSE LET o == Head(ops)
       IN IF ~IsHttpMethod(o.key) THEN BuildLoop(Tail(ops), acc, rejecting)
          ELSE IF OperationThrows(o.op) THEN [acc EXCEPT !.threw = TRUE]
          ELSE IF rejecting
                  /\ AlreadyRegistered(acc.registered, ToolName(o.path, o.key, o.op))
          THEN [acc EXCEPT !.threw = TRUE]
          ELSE BuildLoop(Tail(ops),
                 BuildResult(FALSE,
                   Append(acc.tools,
                          Tool(ToolName(o.path, o.key, o.op), Metadata(o.path, <<o.key>>))),
                   Append(acc.registered,
                          Registration(ToolName(o.path, o.key, o.op),
                                       OperationSchema(o.op)))),
                 rejecting)

BuildTools(paths, rejecting) ==
  BuildLoop(AllOperations(paths), BuildResult(FALSE, <<>>, <<>>), rejecting)

(***************************************************************************)
(* The documents the specification URL may serve.                          *)
(***************************************************************************)
IdParam == Param(<<"id">>, "path", TRUE, "string")
ColorParam == Param(<<"color">>, "query", FALSE, "")
TraceHeader == Param(<<"trace">>, "header", TRUE, "string")

WidgetBody ==
  SchemaBody(<<[name |-> <<"name">>, type |-> "string"],
               [name |-> <<"size">>, type |-> ""]>>, TRUE, <<<<"name">>>>)

\* /widgets/{id}: a shared parameters block, GET getWidget, PUT without
\* operationId; /widgets: GET without operationId, POST createWidget
WidgetsDoc ==
  SwaggerDoc(TRUE, <<
    PathEntry(<<"/", "widgets", "/", "{", "id", "}">>, <<
      ItemEntry("parameters", Operation(Undef, FALSE, <<>>, NoBody)),
      ItemEntry("get", Operation(Str(<<"getWidget">>), TRUE,
                                 <<IdParam, ColorParam, TraceHeader>>, NoBody)),
      ItemEntry("put", Operation(Undef, TRUE, <<IdParam>>, WidgetBody))>>),
    PathEntry(<<"/", "widgets">>, <<
      ItemEntry("get", Operation(Undef, FALSE, <<>>, NoBody)),
      ItemEntry("head", Operation(Str(<<"headWidgets">>), FALSE, <<>>, NoBody)),
      ItemEntry("post", Operation(Str(<<"createWidget">>), FALSE, <<>>, WidgetBody))>>)>>)

\* two operations named getItem, and an operation under the empty path key
ItemsDoc ==
  SwaggerDoc(TRUE, <<
    PathEntry(<<"/", "items", "/", "{", "id", "}">>, <<
      ItemEntry("get", Operation(Str(<<"getItem">>), TRUE, <<IdParam>>, NoBody)),
      ItemEntry("delete", Operation(Str(<<"deleteItem">>), TRUE, <<IdParam>>, OtherBody))>>),
    PathEntry(<<"/", "items">>, <<
      ItemEntry("get", Operation(Str(<<"getItem">>), FALSE, <<>>, NoBody))>>),
    PathEntry(<<>>, <<
      ItemEntry("get", Operation(Str(<<"getRoot">>), FALSE, <<>>, NoBody))>>)>>)

\* the operations of ItemsDoc under names that differ
CatalogDoc ==
  SwaggerDoc(TRUE, <<
    PathEntry(<<"/", "items", "/", "{", "id", "}">>, <<
      ItemEntry("get", Operation(Str(<<"getItem">>), TRUE, <<IdParam>>, NoBody)),
      ItemEntry("delete", Operation(Str(<<"deleteItem">>), TRUE, <<IdParam>>, OtherBody))>>),
    PathEntry(<<"/", "items">>, <<
      ItemEntry("get", Operation(Str(<<"listItems">>), FALSE, <<>>, NoBody))>>),
    PathEntry(<<>>, <<
      ItemEntry("get", Operation(Str(<<"getRoot">>), FALSE, <<>>, NoBody))>>)>>)

\* an operation whose application/json request body declares no schema
UploadDoc ==
  SwaggerDoc(TRUE, <<
    PathEntry(<<"/", "items">>, <<
      ItemEntry("get", Operation(Str(<<"listItems">>), FALSE, <<>>, NoBody))>>),
    PathEntry(<<"/", "upload">>, <<
      ItemEntry("post", Operation(Str(<<"upload">>), FALSE, <<>>, NoSchemaBody))>>)>>)

\* paths: {}
EmptyDoc == SwaggerDoc(TRUE, <<>>)

\* a JSON object without paths
NoPathsDoc == SwaggerDoc(FALSE, <<>>)

SwaggerDocs == {WidgetsDoc, ItemsDoc, CatalogDoc, UploadDoc, EmptyDoc, NoPathsDoc, NullDoc}

(***************************************************************************)
(* Upstream answers, envelopes and JSON-RPC messages.                      *)
(***************************************************************************)
\* what a fetch does: it rejects, or resolves to a response with a status
\* and a body that is a JSON document or is not JSON
Outcome(kind, status, json, body) ==
  [kind |-> kind, status |-> status, json |-> json, body |-> body]
Rejected == Outcome("reject", 0, FALSE, "")
Outcomes ==
  {Rejected} \cup {Outcome("response", st, TRUE, "doc") : st \in {200, 404, 500}}
             \cup {Outcome("response", st, FALSE, "") : st \in {200, 404}}

\* response.ok
Ok(o) == o.status >= 200 /\ o.status <= 299

\* the text of a content item: JSON.stringify(responseData, null, 2) of a
\* document, or `Error executing API call: ${error.message}`
PrettyText(body) == [form |-> "pretty", body |-> body, err |-> NoErr]
ErrorText(err)   == [form |-> "error", body |-> "", err |-> err]
TextItem(text)   == [type |-> "text", text |-> text]

\* {content: [...], isError?}
Envelope(content, isError) == [content |-> content, isError |-> isError]
NoEnvelope == Envelope(<<>>, FALSE)

\* the message of a JSON-RPC error: a fixed text, followed by a value or by
\* the message of a caught error
Message(text, arg, err) == [text |-> text, arg |-> arg, err |-> err]

\* the object given to res.json, with the status set by res.status
Response(http, kind, code, message, id, tools, envelope) ==
  [http |-> http, kind |-> kind, code |-> code, message |-> message, id |-> id,
   tools |-> tools, envelope |-> envelope]
RpcError(http, code, message, id) ==
  Response(http, "error", code, message, id, <<>>, NoEnvelope)

\* a variant of the JSON-RPC result that leaves the tools out
RpcResultBare(id, tools, envelope) ==
  Response(200, "result", 0, Message("", Undef, NoErr), id, <<>>, envelope)

RpcResult(id, tools, envelope) ==
  Response(200, "result", 0, Message("", Undef, NoErr), id, tools, envelope)

\* a POST /mcp request: req.url, which is "/mcp" or a url that Express routes
\* to the same handler; req.body is undefined without a body; parsed tells
\* whether express.json could parse the body that was sent
Params(present, name, arguments) ==
  [present |-> present, name |-> name, arguments |-> arguments]
NoParams == Params(FALSE, Undef, NoArgs)
Rpc(hasBody, jsonrpc, method, params, id) ==
  [url |-> "/mcp", hasBody |-> hasBody, parsed |-> TRUE, jsonrpc |-> jsonrpc,
   method |-> method, params |-> params, id |-> id]
NoBodyRpc == Rpc(FALSE, Undef, Undef, NoParams, Undef)
\* a body of type application/json that is not a JSON object or array
MalformedRpc == [Rpc(TRUE, Undef, Undef, NoParams, Undef) EXCEPT !.parsed = FALSE]

\* this.tools.find(t => t.name === name): the first tool of that name
FindTool(tools, name) ==
  IF name.t = "string" /\ \E i \in 1..Len(tools) : tools[i].name = name.s
  THEN <<tools[CHOOSE i \in 1..Len(tools) :
                  /\ tools[i].name = name.s
                  /\ \A j \in 1..(i - 1) : tools[j].name # name.s]>>
  ELSE <<>>

\* params.arguments || {}
ArgumentsOrEmpty(arguments) == IF arguments.present THEN arguments.kv ELSE <<>>

\* what a handler did before its first await: the responses it sent, and
\* the upstream request it is waiting for, if any
Handled(sent, pending, upstream) ==
  [sent |-> sent, pending |-> pending, upstream |-> upstream]
\* a variant of an answer after which the handler still calls the upstream
AnswerAndFetch(response) == Handled(<<response>>, TRUE, NoRequest)

\* the handler answers and returns
Answer(response) == Handled(<<response>>, FALSE, NoRequest)

\* id || null
IdOrNull(id) == IF Truthy(id) THEN id ELSE Null

(***************************************************************************)
(* POST /mcp, from the request to the response or to the fetch.            *)
(***************************************************************************)
\* the answer to a name that this.tools.find does not find
ToolNotFound(name, id) ==
  RpcError(200, -32601, Message("Tool not found: ", name, NoErr), id)

\* a variant that reports a tool without path or method as not found
InvalidMetadataAsNotFound(name, id) == ToolNotFound(name, id)

\* the answer when the tool found has no path or no method
InvalidMetadata(name, id) ==
  RpcError(200, -32000, Message("Invalid tool metadata for: ", name, NoErr), id)

McpCallTool(rpc, tools) ==
  LET params == rpc.params
      id == rpc.id
      found == FindTool(tools, params.name)
  IN IF ~params.present \/ ~Truthy(params.name)
     THEN Answer(RpcError(400, -32602,
                   Message("Invalid params: missing tool name", Undef, NoErr), id))
     ELSE IF found = <<>>
     THEN Answer(ToolNotFound(params.name, id))
     ELSE LET path == found[1].metadata.path
              method == found[1].metadata.method
              toolArgs == ArgumentsOrEmpty(params.arguments)
          IN IF path = <<>> \/ method = <<>>
             THEN Answer(InvalidMetadata(params.name, id))
             ELSE Handled(<<>>, TRUE, McpBuild(path, method, toolArgs))

\* jsonrpc !== '2.0' || !method
InvalidEnvelope(rpc) == rpc.jsonrpc # Str(<<"2.0">>) \/ ~Truthy(rpc.method)

\* the outer catch: the error becomes a 500 response, id: req.body?.id || null
McpCaught(err, id) ==
  Answer(RpcError(500, -32000, Message("", Undef, err), IdOrNull(id)))

McpHandle(rpc, tools) ==
  IF ~rpc.hasBody
  THEN \* destructuring req.body, which is undefined, throws a TypeError
       McpCaught(Err("type", 0), Undef)
  ELSE IF InvalidEnvelope(rpc)
  THEN Answer(RpcError(400, -32600, Message("Invalid Request", Undef, NoErr),
                       IdOrNull(rpc.id)))
  ELSE IF rpc.method = Str(<<"mcp.listTools">>)
  THEN Answer(RpcResult(rpc.id, tools, NoEnvelope))
  ELSE IF rpc.method = Str(<<"mcp.callTool">>)
  THEN McpCallTool(rpc, tools)
  ELSE Answer(RpcError(200, -32601, Message("Method not found: ", rpc.method, NoErr),
                       rpc.id))

\* the continuation of mcp.callTool after the fetch: response.json() and the
\* result, or the inner catch
McpResume(rpc, o) ==
  IF o.kind = "reject"
  THEN RpcError(200, -32000, Message("", Undef, Err("network", 0)), rpc.id)
  ELSE IF ~o.json
  THEN RpcError(200, -32000, Message("", Undef, Err("parse", 0)), rpc.id)
  ELSE RpcResult(rpc.id, <<>>, Envelope(<<TextItem(PrettyText(o.body))>>, FALSE))

(***************************************************************************)
(* executeApiCall after the fetch.                                         *)
(***************************************************************************)
ErrorEnvelope(err) == Envelope(<<TextItem(ErrorText(err))>>, TRUE)

ExecResume(o) ==
  IF o.kind = "reject" THEN ErrorEnvelope(Err("network", 0))
  ELSE IF ~Ok(o) THEN ErrorEnvelope(Err("http", o.status))
  ELSE IF ~o.json THEN ErrorEnvelope(Err("parse", 0))
  ELSE Envelope(<<TextItem(PrettyText(o.body))>>, FALSE)

(***************************************************************************)
(* The CallTool request handler of the stdio server.                       *)
(***************************************************************************)
\* before the fetch: either the envelope of the catch, or the request
CallToolHandle(name, args, tools) ==
  LET found == FindTool(tools, name)
  IN IF found = <<>>
     THEN [done |-> TRUE, envelope |-> ErrorEnvelope(Err("notfound", 0)),
           upstream |-> NoRequest]
     ELSE IF found[1].metadata.path = <<>> \/ found[1].metadata.method = <<>>
     THEN [done |-> TRUE, envelope |-> ErrorEnvelope(Err("metadata", 0)),
           upstream |-> NoRequest]
     ELSE [done |-> FALSE, envelope |-> NoEnvelope,
           upstream |-> McpBuild(found[1].metadata.path, found[1].metadata.method,
                                 IF args.present THEN args.kv ELSE <<>>)]

CallToolResume(o) ==
  IF o.kind = "reject" THEN ErrorEnvelope(Err("network", 0))
  ELSE IF ~o.json THEN ErrorEnvelope(Err("parse", 0))
  ELSE Envelope(<<TextItem(PrettyText(o.body))>>, FALSE)

(***************************************************************************)
(* Numbers of the pagination helper: a natural number, NaN or Infinity.    *)
(***************************************************************************)
NaN      == JsVal("nan", <<>>, 0, FALSE)
Infinity == JsVal("infinity", <<>>, 0, FALSE)

\* ToNumber of undefined, null or a number
ToNum(v) ==
  CASE v.t = "number"   -> v
    [] v.t = "infinity" -> v
    [] v.t = "null"     -> Num(0)
    [] OTHER            -> NaN

\* a || b
OrElse(a, b) == IF Truthy(a) THEN a ELSE b

\* a / b, followed by Math.ceil or Math.floor as up says
RoundDiv(a, b, up) ==
  LET x == ToNum(a)
      y == ToNum(b)
  IN CASE x.t = "nan" \/ y.t = "nan" -> NaN
       [] x.t = "infinity"           -> IF y.t = "infinity" THEN NaN ELSE Infinity
       [] y.t = "infinity"           -> Num(0)
       [] y.n = 0                    -> IF x.n = 0 THEN NaN ELSE Infinity
       [] OTHER -> Num(IF up THEN (x.n + y.n - 1) \div y.n ELSE x.n \div y.n)

\* Math.ceil(a / b) and Math.floor(a / b)
CeilDiv(a, b)  == RoundDiv(a, b, TRUE)
FloorDiv(a, b) == RoundDiv(a, b, FALSE)

\* a + b: the concatenation when one of the two is a string, the sum of the
\* numbers otherwise
JsAdd(a, b) ==
  IF a.t = "string" \/ b.t = "string" THEN Str(ToStr(a) \o ToStr(b))
  ELSE LET x == ToNum(a)
           y == ToNum(b)
       IN CASE x.t = "nan" \/ y.t = "nan" -> NaN
            [] x.t = "infinity" \/ y.t = "infinity" -> Infinity
            [] OTHER -> Num(x.n + y.n)

\* a + k and a - k for a natural number k
JsPlus(a, k) ==
  LET x == ToNum(a) IN IF x.t = "number" THEN Num(x.n + k) ELSE x
JsMinus(a, k) == JsPlus(a, 0 - k)

\* a * b
JsTimes(a, b) ==
  LET x == ToNum(a)
      y == ToNum(b)
  IN CASE x.t = "nan" \/ y.t = "nan" -> NaN
       [] x.t = "infinity" -> IF y.t = "number" /\ y.n = 0 THEN NaN ELSE Infinity
       [] y.t = "infinity" -> IF x.n = 0 THEN NaN ELSE Infinity
       [] OTHER -> Num(x.n * y.n)

\* a < b
JsLess(a, b) ==
  LET x == ToNum(a)
      y == ToNum(b)
  IN CASE x.t = "nan" \/ y.t = "nan" -> FALSE
       [] x.t = "infinity"           -> FALSE
       [] y.t = "infinity"           -> TRUE
       [] OTHER                      -> x.n < y.n

(***************************************************************************)
(* Responses of a paginated API.  An object response has the fields that   *)
(* the helper reads (undefined when absent) and its array-valued           *)
(* properties in key order; an array response has its items.               *)
(***************************************************************************)
MetaPagination(page, pageSize, pageCount, total) ==
  [present |-> TRUE, page |-> page, pageSize |-> pageSize, pageCount |-> pageCount,
   total |-> total]
NoMeta == [present |-> FALSE, page |-> Undef, pageSize |-> Undef, pageCount |-> Undef,
           total |-> Undef]

\* an object without any of the fields
EmptyObject ==
  [t |-> "object", page |-> Undef, limit |-> Undef, totalItems |-> Undef,
   total |-> Undef, totalPages |-> Undef, current_page |-> Undef, per_page |-> Undef,
   last_page |-> Undef, offset |-> Undef, count |-> Undef, meta |-> NoMeta,
   arrays |-> <<>>]

ArrayResponse(items) == [t |-> "array", items |-> items]
ArrayProp(k, v) == [k |-> k, v |-> v]

\* typeof response === 'object' for a response that is not null
IsObject(response) == response.t \in {"object", "array"}

\* response[prop]: an array has none of the properties
Field(response, prop) == IF response.t = "object" THEN response[prop] ELSE Undef

\* hasProperties(obj, props): every obj[prop] !== undefined
HasProperties(obj, props) ==
  /\ IsObject(obj)
  /\ \A i \in 1..Len(props) : Field(obj, props[i]) # Undef

PaginationInfo(currentPage, pageSize, totalItems, totalPages, hasMore) ==
  [t |-> "object", currentPage |-> currentPage, pageSize |-> pageSize,
   totalItems |-> totalItems, totalPages |-> totalPages, hasMore |-> hasMore,
   offset |-> Undef]

\* extractPaginationInfo(response)
ExtractPaginationInfo(response) ==
  IF ~IsObject(response) THEN Null
  ELSE IF \/ HasProperties(response, <<"page", "limit", "totalItems">>)
          \/ HasProperties(response, <<"page", "limit", "total">>)
  THEN LET items == OrElse(response.totalItems, response.total)
           pages == OrElse(response.totalPages, CeilDiv(items, response.limit))
       IN PaginationInfo(response.page, response.limit, items, pages,
                         JsLess(response.page, pages))
  ELSE IF HasProperties(response, <<"current_page", "per_page", "total">>)
  THEN LET pages == OrElse(response.last_page,
                           CeilDiv(response.total, response.per_page))
       IN PaginationInfo(response.current_page, response.per_page, response.total,
                         pages, JsLess(response.current_page, pages))
  ELSE IF HasProperties(response, <<"offset", "limit", "count">>)
  THEN LET currentPage == JsPlus(FloorDiv(response.offset, response.limit), 1)
           totalPages  == CeilDiv(response.count, response.limit)
       IN PaginationInfo(currentPage, response.limit, response.count, totalPages,
                         JsLess(currentPage, totalPages))
  ELSE IF /\ response.t = "object"
          /\ response.meta.present
          /\ response.meta.page # Undef /\ response.meta.pageSize # Undef
  THEN PaginationInfo(response.meta.page, response.meta.pageSize, response.meta.total,
                      response.meta.pageCount,
                      JsLess(response.meta.page, response.meta.pageCount))
  ELSE Null

\* the properties in which extractData looks first
DataProperties == <<"data", "items", "results", "records", "content">>

\* extractData(response): << the array >>, or << >> for null
ExtractData(response) ==
  IF ~IsObject(response) THEN <<>>
  ELSE IF response.t = "array" THEN <<response.items>>
  ELSE LET arrays == response.arrays
           known == {i \in 1..Len(DataProperties) :
                       \E j \in 1..Len(arrays) : arrays[j].k = DataProperties[i]}
       IN IF known # {}
          THEN LET first == CHOOSE i \in known : \A j \in known : i <= j
               IN <<arrays[CHOOSE j \in 1..Len(arrays) :
                             arrays[j].k = DataProperties[first]].v>>
          ELSE IF Len(arrays) = 1 THEN <<arrays[1].v>>
          ELSE <<>>

\* the parameters of a page request; a field is undefined when absent
PageParams(page, limit, offset, per_page) ==
  [page |-> page, limit |-> limit, offset |-> offset, per_page |-> per_page]
NoPageParams == PageParams(Undef, Undef, Undef, Undef)

\* getNextPageParams(paginationInfo): << the parameters >>, or << >> for null
GetNextPageParams(info) ==
  IF info.t # "object" THEN <<>>
  ELSE IF ~info.hasMore THEN <<>>
  ELSE IF info.pageSize # Undef /\ info.currentPage # Undef
  THEN <<PageParams(JsPlus(info.currentPage, 1), info.pageSize, Undef, Undef)>>
  ELSE IF info.pageSize # Undef /\ info.offset # Undef
  THEN <<PageParams(Undef, info.pageSize, JsAdd(info.offset, info.pageSize), Undef)>>
  ELSE <<>>

\* transformPaginationParams(params, targetStyle)
TransformPaginationParams(params, targetStyle) ==
  CASE targetStyle = "page-limit" ->
         IF params.offset # Undef /\ Truthy(params.limit)
         THEN [params EXCEPT !.page = JsPlus(FloorDiv(params.offset, params.limit), 1),
                             !.offset = Undef]
         ELSE IF Truthy(params.per_page)
         THEN [params EXCEPT !.limit = params.per_page, !.per_page = Undef]
         ELSE params
    [] targetStyle = "offset-limit" ->
         IF params.page # Undef /\ Truthy(params.limit)
         THEN [params EXCEPT !.offset = JsTimes(JsMinus(params.page, 1), params.limit),
                             !.page = Undef]
         ELSE IF params.page # Undef /\ Truthy(params.per_page)
         THEN [params EXCEPT
                 !.offset = JsTimes(JsMinus(params.page, 1), params.per_page),
                 !.limit = params.per_page, !.page = Undef, !.per_page = Undef]
         ELSE params
    [] targetStyle = "page-per_page" ->
         IF params.offset # Undef /\ Truthy(params.limit)
         THEN [params EXCEPT !.page = JsPlus(FloorDiv(params.offset, params.limit), 1),
                             !.per_page = params.limit, !.offset = Undef,
                             !.limit = Undef]
         ELSE IF Truthy(params.limit)
         THEN [params EXCEPT !.per_page = params.limit, !.limit = Undef]
         ELSE params
    [] OTHER -> params

\* {...a, ...b}: a key of b replaces the key of a
Spread(a, b) ==
  [f \in DOMAIN a |-> IF b[f] # Undef THEN b[f] ELSE a[f]]

\* formatPaginatedResponse(response): data is the extracted array or the
\* response itself, pagination the info or null
FormatPaginatedResponse(response) ==
  [data |-> IF ExtractData(response) # <<>> THEN ArrayResponse(ExtractData(response)[1])
            ELSE response,
   pagination |-> ExtractPaginationInfo(response)]

(***************************************************************************)
(* ResponseCache.  The Map is the sequence of its entries in insertion     *)
(* order, which is the order of Map.entries().                             *)
(***************************************************************************)
CacheOptions(defaultTtl, maxSize, enabled, cleanupInterval) ==
  [defaultTtl |-> defaultTtl, maxSize |-> maxSize, enabled |-> enabled,
   cleanupInterval |-> cleanupInterval]

\* new ResponseCache(options); cleanupInterval is the period of the timer that
\* calls cleanup(), 0 when the constructor sets none
NewCache(options) ==
  [entries    |-> <<>>,
   defaultTtl |-> OrElse(options.defaultTtl, Num(5 * 60 * 1000)).n,
   maxSize    |-> OrElse(options.maxSize, Num(1000)).n,
   enabled    |-> options.enabled # Bool(FALSE),
   cleanupInterval |-> IF Truthy(options.cleanupInterval)
                       THEN options.cleanupInterval.n ELSE 0]

CacheEntry(key, data, expiry) == [key |-> key, data |-> data, expiry |-> expiry]

\* the position of the key in the Map, 0 when it has none
MapIndex(entries, key) ==
  IF \E i \in 1..Len(entries) : entries[i].key = key
  THEN CHOOSE i \in 1..Len(entries) : entries[i].key = key
  ELSE 0

\* Map.set: a stored key keeps its position
MapSet(entries, entry) ==
  IF MapIndex(entries, entry.key) # 0
  THEN [entries EXCEPT ![MapIndex(entries, entry.key)] = entry]
  ELSE Append(entries, entry)

\* Map.delete
MapDelete(entries, key) == SelectSeq(entries, LAMBDA e : e.key # key)

\* a variant that takes the entry inserted last
LastIndex(entries) == Len(entries)

\* the first entry of [...entries].sort((a, b) => a[1].expiry - b[1].expiry):
\* the sort is stable, so the first inserted of the entries that expire first
OldestIndex(entries) ==
  CHOOSE i \in 1..Len(entries) :
    /\ \A j \in 1..Len(entries) : entries[i].expiry <= entries[j].expiry
    /\ \A j \in 1..(i - 1) : entries[j].expiry # entries[i].expiry

RECURSIVE EvictOldest(_, _)
\* evictOldest(count)
EvictOldest(entries, count) ==
  IF count <= 0 \/ entries = <<>> THEN entries
  ELSE EvictOldest(MapDelete(entries, entries[OldestIndex(entries)].key), count - 1)

\* the ttl parameter, this.defaultTtl when it is undefined
TtlOrDefault(c, ttl) == IF ttl = Undef THEN c.defaultTtl ELSE ttl.n

\* a variant of set that inserts without looking at the size
SetUnbounded(c, key, data, ttl, t) ==
  IF ~c.enabled THEN c
  ELSE [c EXCEPT !.entries = MapSet(c.entries,
                               CacheEntry(key, data, t + TtlOrDefault(c, ttl)))]

\* set(key, data, ttl) at the time t
Set(c, key, data, ttl, t) ==
  IF ~c.enabled THEN c
  ELSE LET kept == IF Len(c.entries) >= c.maxSize THEN EvictOldest(c.entries, 1)
                   ELSE c.entries
       IN [c EXCEPT !.entries = MapSet(kept,
                                  CacheEntry(key, data, t + TtlOrDefault(c, ttl)))]

\* what a method did: the cache after it and the value it returned
Did(c, value) == [cache |-> c, value |-> value]

\* a variant of get that keeps an expired entry in the Map
GetKeeping(c, key, t) ==
  LET i == MapIndex(c.entries, key)
  IN IF ~c.enabled \/ i = 0 THEN Did(c, Null)
     ELSE IF c.entries[i].expiry <= t THEN Did(c, Null)
     ELSE Did(c, c.entries[i].data)

\* get(key) at the time t
Get(c, key, t) ==
  LET i == MapIndex(c.entries, key)
  IN IF ~c.enabled \/ i = 0 THEN Did(c, Null)
     ELSE IF c.entries[i].expiry <= t
     THEN Did([c EXCEPT !.entries = MapDelete(c.entries, key)], Null)
     ELSE Did(c, c.entries[i].data)

\* remove(key)
Remove(c, key) == [c EXCEPT !.entries = MapDelete(c.entries, key)]

\* clear()
Clear(c) == [c EXCEPT !.entries = <<>>]

\* dispose(): the timer is stopped and the Map cleared
Dispose(c) == [Clear(c) EXCEPT !.cleanupInterval = 0]

\* a variant of cleanup that keeps the entries that expire at the time t
CleanupBefore(c, t) == [c EXCEPT !.entries = SelectSeq(c.entries, LAMBDA e : ~(e.expiry < t))]

\* cleanup() at the time t
Cleanup(c, t) == [c EXCEPT !.entries = SelectSeq(c.entries, LAMBDA e : ~(e.expiry <= t))]

\* a getOrFetch call that awaits its producer; store is FALSE for a disabled
\* cache, which returns fetchFn() without storing
Fetch(key, ttl, store) == [key |-> key, ttl |-> ttl, store |-> store]

\* getOrFetch down to the await: the cache after the get, whether the call
\* returned the cached value, and the call that awaits its producer if not
GetOrFetchBegin(c, key, ttl, t) ==
  IF ~c.enabled
  THEN [cache |-> c, hit |-> FALSE, value |-> Null, pending |-> Fetch(key, ttl, FALSE)]
  ELSE LET got == Get(c, key, t)
       IN [cache |-> got.cache, hit |-> got.value.t # "null", value |-> got.value,
           pending |-> Fetch(key, ttl, TRUE)]

\* a variant of the end of getOrFetch that keeps the entry another call stored
GetOrFetchEndFirst(c, f, value, t) ==
  IF f.store /\ value.t \notin {"null", "undefined"} /\ MapIndex(c.entries, f.key) = 0
  THEN Set(c, f.key, value, f.ttl, t)
  ELSE c

\* getOrFetch after the await: the value is stored unless null or undefined
GetOrFetchEnd(c, f, value, t) ==
  IF f.store /\ value.t \notin {"null", "undefined"}
  THEN Set(c, f.key, value, f.ttl, t)
  ELSE c

\* const defaultCacheOptions.report
ReportOptions == CacheOptions(Num(10 * 60 * 1000), Num(200), Undef, Num(5 * 60 * 1000))

\* export const reportCache
ReportCache == NewCache(ReportOptions)

(***************************************************************************)
(* State.                                                                  *)
(***************************************************************************)
VARIABLES
  pc,           \* where the startup sequence (run, init) stands
  swaggerSpec,  \* this.swaggerSpec
  paths,        \* this.paths
  tools,        \* this.tools, the tool registry
  registered,   \* the tools registered with the McpServer by this.server.tool
  buildTools,   \* "no", "completed" or "threw": what buildTools did
  routes,       \* the routes registered on this.app
  listening,    \* this.app.listen was called
  exited,       \* process.exit was called
  exitCode,     \* its argument
  errorLogged,  \* logger.error('Error initializing:', ...) was called
  call,         \* the invocation in progress
  sent,         \* the responses written for the HTTP request in progress
  fetched,      \* the upstream requests issued by the invocation in progress
  returned,     \* what executeApiCall or the CallTool handler returned
  cache,        \* a ResponseCache: its options and its Map, in insertion order
  now,          \* Date.now()
  inflight,     \* the getOrFetch calls that await their producer
  last,         \* the last operation on the cache and what it returned
  pg,           \* the last call of extractPaginationInfo and its result
  ap,           \* the autoPaginate call in progress
  proxied,      \* the answers to the GET request in progress
  built,        \* the input schema buildTools made for an operation
  flights,      \* the invocations in progress at the same time
  transports,   \* this.transports, the SSE transports by sessionId
  opened,       \* the number of SSE connections opened so far
  posted,       \* the POST /messages request in progress and its answer
  sigint,       \* where the SIGINT handler stands
  np,           \* the last call of getNextPageParams and its result
  timerDue      \* the cleanup timer of the cache has fired, its callback has not run

vars == <<pc, swaggerSpec, paths, tools, registered, buildTools, routes, listening,
          exited, exitCode, errorLogged, call, sent, fetched, returned,
          cache, now, inflight, last, pg, ap, proxied,
          built, flights, transports, opened, posted, sigint, np, timerDue>>

startup == <<pc, swaggerSpec, paths, tools, registered, buildTools, routes, listening,
             exited, exitCode, errorLogged>>
serving == <<call, sent, fetched, returned>>
caching == <<cache, now, inflight, last>>
paging  == <<pg, ap>>
sessions == <<transports, opened, posted, sigint>>
extra   == <<built, flights, sessions, np>>
\* what the JSON-RPC handlers and the startup sequence leave alone
library == <<caching, paging, proxied, extra, timerDue>>

\* an invocation: kind "none", "mcp" (POST /mcp), "exec" (executeApiCall),
\* "callTool" (CallTool request handler), "tools" (GET /tools) or "health"
\* (GET /health); stage "pending" while it awaits
\* the upstream, "done" when the handler has finished
Call(kind, stage, rpc, path, method, name, args, outcome) ==
  [kind |-> kind, stage |-> stage, rpc |-> rpc, path |-> path, method |-> method,
   name |-> name, args |-> args, outcome |-> outcome]
NoOutcome == Outcome("none", 0, FALSE, "")
NoCall == Call("none", "done", NoBodyRpc, Undef, Undef, Undef, NoArgs, NoOutcome)

\* what a function returned: state "none", "returned" or "threw"
Returned(state, envelope) == [state |-> state, envelope |-> envelope]
NothingReturned == Returned("none", NoEnvelope)

\* the last operation on the cache: the method, its key, the value it was
\* given (set) or returned, the ttl it stored with, whether it has returned,
\* awaits its producer or threw, and the size of the Map when it began
Op(op, key, value, ttl, stage, size) ==
  [op |-> op, key |-> key, value |-> value, ttl |-> ttl, stage |-> stage,
   size |-> size]
NoOp == Op("none", "", Undef, 0, "returned", 0)

\* a call of extractPaginationInfo: the response and the info returned
PageCall(called, response, info) ==
  [called |-> called, response |-> response, info |-> info]
NoPageCall == PageCall(FALSE, Null, Null)

\* a call of autoPaginate: pc is "idle", "awaiting" or "done"; calls are the
\* parameters given to fetchFn and pages the responses it returned
AutoPaginate(pc_, options, allResults, currentParams, pageCount, calls, pages) ==
  [pc |-> pc_, maxPages |-> options.maxPages, maxItems |-> options.maxItems,
   targetStyle |-> options.targetStyle, allResults |-> allResults,
   currentParams |-> currentParams, pageCount |-> pageCount, calls |-> calls,
   pages |-> pages]

\* the options of autoPaginate
PageOptions(maxPages, maxItems, targetStyle) ==
  [maxPages |-> maxPages, maxItems |-> maxItems, targetStyle |-> targetStyle]

NoAutoPaginate ==
  AutoPaginate("idle", PageOptions(0, 0, "page-limit"), <<>>, NoPageParams, 0, <<>>, <<>>)

\* the input schema buildTools made for an operation, or that it threw
SchemaBuilt(called, operation, threw, inputSchema) ==
  [called |-> called, operation |-> operation, threw |-> threw, inputSchema |-> inputSchema]
NoBuilt == SchemaBuilt(FALSE, Operation(Undef, FALSE, <<>>, NoBody), FALSE, InputSchema(<<>>, <<>>))

\* a call of getNextPageParams: the pagination info and the value returned
NextCall(called, info, params) == [called |-> called, info |-> info, params |-> params]
NoNextCall == NextCall(FALSE, Null, <<>>)

\* a POST /messages request: the sessionId of its query, the session whose
\* transport handled it (<<>> when none did), the status and the JSON-RPC
\* error code of the answer of the route (0 when the route wrote none)
Posted(called, sessionId, handledBy, status, code) ==
  [called |-> called, sessionId |-> sessionId, handledBy |-> handledBy,
   status |-> status, code |-> code]
NoPosted == Posted(FALSE, Undef, <<>>, 0, 0)

\* the SIGINT handler: pc is "idle", "loop" (awaits a disconnect), "rejected"
\* or "exited"; keys are the sessionIds the for-in loop has still to visit,
\* the first being the one whose disconnect is awaited; atSignal are the
\* sessionIds registered when the signal arrived
Sigint(pc_, keys, disconnected, atSignal) ==
  [pc |-> pc_, keys |-> keys, disconnected |-> disconnected, atSignal |-> atSignal]
NoSigint == Sigint("idle", <<>>, {}, {})

\* the server object after its constructor
ServerNew ==
  /\ pc = "new"
  /\ swaggerSpec = NullDoc
  /\ paths = <<>>
  /\ tools = <<>>
  /\ registered = <<>>
  /\ buildTools = "no"
  /\ routes = {}
  /\ listening = FALSE
  /\ exited = FALSE
  /\ exitCode = 0
  /\ errorLogged = FALSE
  /\ call = NoCall
  /\ sent = <<>>
  /\ fetched = <<>>
  /\ returned = NothingReturned
  /\ proxied = <<>>
  /\ built = NoBuilt
  /\ flights = <<>>
  /\ transports = <<>>
  /\ opened = 0
  /\ posted = NoPosted
  /\ sigint = NoSigint
  /\ np = NoNextCall
  /\ timerDue = FALSE

\* no call of the pagination helper is in progress
PagingIdle ==
  /\ pg = NoPageCall
  /\ ap = NoAutoPaginate

\* the state after the module is loaded and the server constructed
Init ==
  /\ ServerNew
  /\ cache = ReportCache
  /\ now = 0
  /\ inflight = <<>>
  /\ last = NoOp
  /\ PagingIdle

(***************************************************************************)
(* Startup: run() calls init(), then setupSSEEndpoints().                  *)
(***************************************************************************)
\* the catch block of init
InitFailed ==
  /\ errorLogged' = TRUE
  /\ exited' = TRUE
  /\ exitCode' = 1
  /\ pc' = "exited"

\* init up to the await of defaultCache.getOrFetch
InitStart ==
  /\ pc = "new"
  /\ pc' = "fetching"
  /\ UNCHANGED <<swaggerSpec, paths, tools, registered, buildTools, routes, listening,
                 exited, exitCode, errorLogged>>
  /\ UNCHANGED <<serving, library>>

\* the fetch of the specification rejects (network error, body that is not JSON)
FetchSwaggerFails ==
  /\ pc = "fetching"
  /\ InitFailed
  /\ UNCHANGED <<swaggerSpec, paths, tools, registered, buildTools, routes, listening>>
  /\ UNCHANGED <<serving, library>>

\* the fetch resolves: the specification is stored and validated
\* a variant that only rejects a null specification
SpecInvalidNullOnly(doc) == doc.isNull

\* !this.swaggerSpec || !this.swaggerSpec.paths
SpecInvalid(doc) == doc.isNull \/ ~doc.hasPaths

FetchSwagger ==
  /\ pc = "fetching"
  /\ \E doc \in SwaggerDocs :
       /\ swaggerSpec' = doc
       /\ IF SpecInvalid(doc)
          THEN /\ InitFailed
               /\ UNCHANGED paths
          ELSE /\ paths' = doc.paths
               /\ pc' = "buildTools"
               /\ UNCHANGED <<exited, exitCode, errorLogged>>
  /\ UNCHANGED <<tools, registered, buildTools, routes, listening>>
  /\ UNCHANGED <<serving, library>>

\* await this.buildTools()
RunBuildTools ==
  /\ pc = "buildTools"
  /\ \E rejecting \in BOOLEAN :
       LET r == BuildTools(paths, rejecting)
       IN /\ registered' = r.registered
          /\ IF r.threw
             THEN /\ buildTools' = "threw"
                  /\ InitFailed
                  /\ UNCHANGED tools
             ELSE /\ buildTools' = "completed"
                  /\ tools' = r.tools
                  /\ pc' = "setupExpressProxy"
                  /\ UNCHANGED <<exited, exitCode, errorLogged>>
  /\ UNCHANGED <<swaggerSpec, paths, routes, listening>>
  /\ UNCHANGED <<serving, library>>

SetupExpressProxy ==
  /\ pc = "setupExpressProxy"
  /\ routes' = routes \cup {"GET /api/LpcReport/:lpcId", "USE /api"}
  /\ pc' = "startExpressServer"
  /\ UNCHANGED <<swaggerSpec, paths, tools, registered, buildTools, listening,
                 exited, exitCode, errorLogged>>
  /\ UNCHANGED <<serving, library>>

StartExpressServer ==
  /\ pc = "startExpressServer"
  /\ routes' = routes \cup {"GET /health", "GET /tools", "POST /mcp"}
  /\ listening' = TRUE
  /\ pc' = "setupSSEEndpoints"
  /\ UNCHANGED <<swaggerSpec, paths, tools, registered, buildTools,
                 exited, exitCode, errorLogged>>
  /\ UNCHANGED <<serving, library>>

SetupSSEEndpoints ==
  /\ pc = "setupSSEEndpoints"
  /\ routes' = routes \cup {"GET /sse", "POST /messages"}
  /\ pc' = "running"
  /\ UNCHANGED <<swaggerSpec, paths, tools, registered, buildTools, listening,
                 exited, exitCode, errorLogged>>
  /\ UNCHANGED <<serving, library>>

(***************************************************************************)
(* Inputs.                                                                 *)
(***************************************************************************)
ArgKeys == {<<"id">>, <<"color">>, <<"name">>}
ArgValues == {Str(<<"7">>), Str(<<"red">>), Str(<<"{", "color", "}">>), Num(0), Bool(FALSE)}

\* the argument objects of at most MaxArgs keys
ArgLists ==
  UNION {{[i \in 1..n |-> Entry(ks[i], vs[i])] :
            ks \in {f \in [1..n -> ArgKeys] : \A i, j \in 1..n : i # j => f[i] # f[j]},
            vs \in [1..n -> ArgValues]} : n \in 0..MaxArgs}
ArgInputs == {NoArgs} \cup {ArgsObj(kv) : kv \in ArgLists}

IdInputs == {Undef, Num(0), Str(<<>>), Str(<<"a">>)}

NameInputs ==
  {Str(tools[i].name) : i \in 1..Len(tools)} \cup {Str(<<"missing">>), Str(<<>>), Undef}

\* the urls of the requests that reach the POST /mcp route: the path, the
\* path with a query string, the path with a trailing slash
McpUrls == {"/mcp", "/mcp?x=1", "/mcp/"}

\* the requests that probe the envelope, with and without params; a method
\* is a string, absent, or another JSON value
EnvelopeBodies ==
  {Rpc(TRUE, jsonrpc, method, params, id) :
     jsonrpc \in {Str(<<"2.0">>), Str(<<"1.0">>), Undef},
     method \in {Str(<<"mcp.listTools">>), Str(<<"mcp.callTool">>),
                 Str(<<"mcp.other">>), Str(<<>>), Undef, Num(5), Bool(TRUE)},
     params \in {NoParams, Params(TRUE, Str(<<"getWidget">>), ArgsObj(<<>>))},
     id \in IdInputs}
EnvelopeInputs == {[rpc EXCEPT !.url = url] : rpc \in EnvelopeBodies, url \in McpUrls}

\* the mcp.callTool requests
CallToolInputs ==
  {Rpc(TRUE, Str(<<"2.0">>), Str(<<"mcp.callTool">>), Params(TRUE, name, arguments), id) :
     name \in NameInputs, arguments \in ArgInputs, id \in IdInputs}

RpcInputs == {NoBodyRpc, MalformedRpc} \cup EnvelopeInputs \cup CallToolInputs

PathInputs ==
  {Str(tools[i].metadata.path) : i \in 1..Len(tools)}
    \cup {Str(<<"/", "widgets", "/", "{", "id", "}">>), Undef}
MethodInputs == {Str(<<"get">>), Str(<<"GET">>), Str(<<"post">>), Undef}

(***************************************************************************)
(* The layers of the Express application, in the order of their            *)
(* registration.  A request runs through the middleware down to its route; *)
(* an error thrown by a layer, or given to next, goes on to the error-     *)
(* handling layers registered after that layer, and when there is none the *)
(* final handler of Express answers the request.                           *)
(***************************************************************************)
Layer(kind, name) == [kind |-> kind, name |-> name]

\* the this.app.use and this.app.get calls in the order the program makes them
Layers ==
  <<Layer("middleware", "express.json"),
    Layer("middleware", "logger"),
    Layer("error", "expressErrorHandler"),
    Layer("route", "GET /api/LpcReport/:lpcId"),
    Layer("middleware", "USE /api"),
    Layer("route", "GET /health"),
    Layer("route", "GET /tools"),
    Layer("route", "POST /mcp"),
    Layer("route", "GET /sse"),
    Layer("route", "POST /messages")>>

\* the layer has been registered: express.json by the constructor, the logger
\* and the error middleware by setupExpressProxy, the others as this.routes tells
IsRegistered(layer) ==
  \/ layer.name = "express.json"
  \/ layer.name \in {"logger", "expressErrorHandler"} /\ "USE /api" \in routes
  \/ layer.name \in routes

Stack == SelectSeq(Layers, IsRegistered)

\* the position of the layer in the stack, 0 if it is not there
LayerIndex(stack, name) ==
  IF \E i \in 1..Len(stack) : stack[i].name = name
  THEN CHOOSE i \in 1..Len(stack) : stack[i].name = name
  ELSE 0

\* the first error-handling layer after position i, 0 if there is none
ErrorLayerAfter(stack, i) ==
  IF \E j \in (i + 1)..Len(stack) : stack[j].kind = "error"
  THEN CHOOSE j \in (i + 1)..Len(stack) :
         /\ stack[j].kind = "error"
         /\ \A k \in (i + 1)..(j - 1) : stack[k].kind # "error"
  ELSE 0

\* an error: new ApiError(message, status) has a status, the errors of fetch
\* and of response.json() have none
Failure(message, status) == [message |-> message, status |-> status]
NoFailure == Failure("", Undef)

\* an answer to a request: who wrote it, the status, whether the body is JSON
HttpAnswer(by, status, json, body) ==
  [by |-> by, status |-> status, json |-> json, body |-> body]
NoHttpAnswer == HttpAnswer("none", 0, FALSE, Null)

\* ErrorHandler.expressErrorHandler(err, req, res, next); requestId and
\* timestamp are fresh values and left out of the body
ExpressErrorHandler(err) ==
  LET status == OrElse(err.status, Num(500))
  IN HttpAnswer("expressErrorHandler", status.n, TRUE,
            [t |-> "error", status |-> status,
             message |-> IF err.message = "" THEN "Internal server error"
                         ELSE err.message])

\* the final handler of Express: the status of the error when it is one of
\* 400..599 and 500 otherwise, with an HTML page as the body
FinalHandler(err) ==
  LET status == IF err.status.t = "number" /\ err.status.n \in 400..599
                THEN err.status.n ELSE 500
  IN HttpAnswer("finalhandler", status, FALSE, [t |-> "html", message |-> err.message])

\* next(error) called by the layer at position i
NextError(stack, i, err) ==
  IF ErrorLayerAfter(stack, i) = 0 THEN FinalHandler(err) ELSE ExpressErrorHandler(err)

\* express.json(): a body that cannot be parsed is given to next as an error
\* with status 400; it returns the error, or nothing
ExpressJson(rpc) ==
  IF rpc.hasBody /\ ~rpc.parsed THEN <<Failure("Unexpected token", Num(400))>> ELSE <<>>

\* Logger.expressMiddleware: requestBody is req.body when req.url === '/mcp'
\* and the method is POST, and null otherwise; requestBody &&
\* requestBody.method && requestBody.method.startsWith('mcp.') throws a
\* TypeError when the method is truthy and not a string; it returns the
\* error, or nothing
LoggerMiddleware(rpc) ==
  IF rpc.url = "/mcp" /\ rpc.hasBody /\ Truthy(rpc.method) /\ rpc.method.t # "string"
  THEN <<Failure("requestBody.method.startsWith is not a function", Undef)>>
  ELSE <<>>

\* the answer of an error handler as the response of the request
ErrorAnswer(a) ==
  [http |-> a.status, kind |-> "http", by |-> a.by, json |-> a.json, body |-> a.body]

\* a POST /mcp request runs through express.json and the logger to the route
PostMcp(stack, rpc, list) ==
  LET parse == ExpressJson(rpc)
      logged == LoggerMiddleware(rpc)
  IN IF parse # <<>>
     THEN Answer(ErrorAnswer(NextError(stack, LayerIndex(stack, "express.json"), parse[1])))
     ELSE IF logged # <<>>
     THEN Answer(ErrorAnswer(NextError(stack, LayerIndex(stack, "logger"), logged[1])))
     ELSE McpHandle(rpc, list)

(***************************************************************************)
(* POST /mcp                                                               *)
(***************************************************************************)
Idle == pc = "running" /\ call.kind = "none"

McpRequest ==
  /\ Idle
  /\ \E rpc \in RpcInputs :
       LET h == PostMcp(Stack, rpc, tools)
       IN /\ sent' = h.sent
          /\ fetched' = IF h.pending THEN <<h.upstream>> ELSE <<>>
          /\ call' = Call("mcp", IF h.pending THEN "pending" ELSE "done", rpc,
                          Undef, Undef, Undef, NoArgs, NoOutcome)
  /\ returned' = NothingReturned
  /\ UNCHANGED <<startup, library>>

\* the upstream answers the fetch of mcp.callTool
McpUpstream ==
  /\ call.kind = "mcp" /\ call.stage = "pending"
  /\ \E o \in Outcomes :
       /\ sent' = Append(sent, McpResume(call.rpc, o))
       /\ call' = [call EXCEPT !.stage = "done", !.outcome = o]
  /\ UNCHANGED <<fetched, returned>>
  /\ UNCHANGED <<startup, library>>

(***************************************************************************)
(* executeApiCall                                                          *)
(***************************************************************************)
\* a variant without the catch block: the error leaves executeApiCall
ExecUncaught(err) == Returned("threw", NoEnvelope)

\* the catch block: the error becomes the returned envelope
ExecCaught(err) == Returned("returned", ErrorEnvelope(err))

ExecCall ==
  /\ Idle
  /\ \E path \in PathInputs, method \in MethodInputs, args \in ArgInputs :
       LET b == ExecBuild(path, method, args)
       IN /\ fetched' = IF b.threw THEN <<>> ELSE <<b.req>>
          /\ returned' = IF b.threw THEN ExecCaught(Err("type", 0)) ELSE NothingReturned
          /\ call' = Call("exec", IF b.threw THEN "done" ELSE "pending", NoBodyRpc,
                          path, method, Undef, args, NoOutcome)
  /\ sent' = <<>>
  /\ UNCHANGED <<startup, library>>

ExecSettle(o) ==
  LET e == ExecResume(o)
  IN IF e.isError THEN ExecCaught(e.content[1].text.err) ELSE Returned("returned", e)

ExecUpstream ==
  /\ call.kind = "exec" /\ call.stage = "pending"
  /\ \E o \in Outcomes :
       /\ returned' = ExecSettle(o)
       /\ call' = [call EXCEPT !.stage = "done", !.outcome = o]
  /\ UNCHANGED <<sent, fetched>>
  /\ UNCHANGED <<startup, library>>

(***************************************************************************)
(* CallTool request handler                                                *)
(***************************************************************************)
CallToolRequest ==
  /\ Idle
  /\ \E name \in NameInputs, args \in ArgInputs :
       LET h == CallToolHandle(name, args, tools)
       IN /\ fetched' = IF h.done THEN <<>> ELSE <<h.upstream>>
          /\ returned' = IF h.done THEN Returned("returned", h.envelope)
                         ELSE NothingReturned
          /\ call' = Call("callTool", IF h.done THEN "done" ELSE "pending", NoBodyRpc,
                          Undef, Undef, name, args, NoOutcome)
  /\ sent' = <<>>
  /\ UNCHANGED <<startup, library>>

CallToolUpstream ==
  /\ call.kind = "callTool" /\ call.stage = "pending"
  /\ \E o \in Outcomes :
       /\ returned' = Returned("returned", CallToolResume(o))
       /\ call' = [call EXCEPT !.stage = "done", !.outcome = o]
  /\ UNCHANGED <<sent, fetched>>
  /\ UNCHANGED <<startup, library>>

(***************************************************************************)
(* GET /tools and GET /health                                              *)
(***************************************************************************)
\* res.json({ tools: this.tools })
ToolsAnswer(list) == [http |-> 200, kind |-> "tools", tools |-> list]

\* res.json({ status: 'OK', tools: this.tools.length })
HealthAnswer(list) ==
  [http |-> 200, kind |-> "health", status |-> "OK", tools |-> Len(list)]

GetTools ==
  /\ Idle
  /\ "GET /tools" \in routes
  /\ sent' = <<ToolsAnswer(tools)>>
  /\ call' = Call("tools", "done", NoBodyRpc, Undef, Undef, Undef, NoArgs, NoOutcome)
  /\ fetched' = <<>>
  /\ returned' = NothingReturned
  /\ UNCHANGED <<startup, library>>

GetHealth ==
  /\ Idle
  /\ "GET /health" \in routes
  /\ sent' = <<HealthAnswer(tools)>>
  /\ call' = Call("health", "done", NoBodyRpc, Undef, Undef, Undef, NoArgs, NoOutcome)
  /\ fetched' = <<>>
  /\ returned' = NothingReturned
  /\ UNCHANGED <<startup, library>>

\* the invocation is over; the server waits for the next one
Finish ==
  /\ call.kind # "none" /\ call.stage = "done"
  /\ call' = NoCall
  /\ sent' = <<>>
  /\ fetched' = <<>>
  /\ returned' = NothingReturned
  /\ UNCHANGED <<startup, library>>

Next ==
  \/ InitStart
  \/ FetchSwaggerFails
  \/ FetchSwagger
  \/ RunBuildTools
  \/ SetupExpressProxy
  \/ StartExpressServer
  \/ SetupSSEEndpoints
  \/ McpRequest
  \/ McpUpstream
  \/ ExecCall
  \/ ExecUpstream
  \/ CallToolRequest
  \/ CallToolUpstream
  \/ GetTools
  \/ GetHealth
  \/ Finish

Spec == Init /\ [][Next]_vars

(***************************************************************************)
(* Reading a request back: what an upstream server sees in it.             *)
(***************************************************************************)
\* the part of the url before the first "?" and the part after it
UrlPath(url) ==
  LET i == IndexOf(url, <<"?">>) IN IF i = 0 THEN url ELSE SubSeq(url, 1, i - 1)
UrlQuery(url) ==
  LET i == IndexOf(url, <<"?">>) IN IF i = 0 THEN <<>> ELSE SubSeq(url, i + 1, Len(url))
HasQuery(url) == IndexOf(url, <<"?">>) # 0

RECURSIVE QueryNames(_)
\* the names of the parameters of a query string, in order
QueryNames(q) ==
  IF q = <<>> THEN <<>>
  ELSE LET amp  == IndexOf(q, <<"&">>)
           pair == IF amp = 0 THEN q ELSE SubSeq(q, 1, amp - 1)
           rest == IF amp = 0 THEN <<>> ELSE SubSeq(q, amp + 1, Len(q))
           eq   == IndexOf(pair, <<"=">>)
       IN <<IF eq = 0 THEN pair ELSE SubSeq(pair, 1, eq - 1)>> \o QueryNames(rest)

\* the keys of an object, in order
KeysOf(kv) == [i \in 1..Len(kv) |-> kv[i].k]
InSeq(x, seq) == \E i \in 1..Len(seq) : seq[i] = x

RECURSIVE Expand(_, _)
\* the path with the placeholder of every argument replaced by String(value)
Expand(path, kv) ==
  IF path = <<>> THEN <<>>
  ELSE IF \E i \in 1..Len(kv) : OccursAt(path, Placeholder(kv[i].k), 1)
  THEN LET e == kv[CHOOSE i \in 1..Len(kv) : OccursAt(path, Placeholder(kv[i].k), 1)]
       IN ToStr(e.v) \o Expand(SubSeq(path, Len(Placeholder(e.k)) + 1, Len(path)), kv)
  ELSE <<Head(path)>> \o Expand(Tail(path), kv)

\* the arguments that are placeholders of the path, and the others
IsPlaceholder(path, k) == Includes(path, Placeholder(k))
Remaining(path, kv) == SelectSeq(kv, LAMBDA e : ~IsPlaceholder(path, e.k))

\* an invocation of executeApiCall or of mcp.callTool has issued its request:
\* its path, method and arguments
Invoked ==
  /\ call.kind \in {"exec", "mcp"}
  /\ Len(fetched) = 1
InvokedPath ==
  IF call.kind = "exec" THEN call.path.s
  ELSE FindTool(tools, call.rpc.params.name)[1].metadata.path
InvokedMethod ==
  IF call.kind = "exec" THEN call.method.s
  ELSE FindTool(tools, call.rpc.params.name)[1].metadata.method
InvokedArgs ==
  IF call.kind = "exec" THEN (IF call.args.present THEN call.args.kv ELSE <<>>)
  ELSE ArgumentsOrEmpty(call.rpc.params.arguments)

(***************************************************************************)
(* C1: in a tool invocation with path P and arguments A, the requested URL *)
(* is the base followed by P with every placeholder {k}, k a key of A,     *)
(* replaced by String(A[k]), whatever the value is (0 and false included), *)
(* and no such k is a query parameter or a key of the body.  The claim as  *)
(* it is stated; the code does not satisfy it.                             *)
(***************************************************************************)
C1_PathSubstitution ==
  Invoked =>
    /\ UrlPath(fetched[1].url) = API_BASE_URL \o Expand(InvokedPath, InvokedArgs)
    /\ \A i \in 1..Len(InvokedArgs) :
         IsPlaceholder(InvokedPath, InvokedArgs[i].k) =>
           /\ ~InSeq(Encode(InvokedArgs[i].k), QueryNames(UrlQuery(fetched[1].url)))
           /\ ~InSeq(InvokedArgs[i].k, KeysOf(fetched[1].body))

(***************************************************************************)
(* C2: the arguments that are no placeholder of the path are sent in one   *)
(* place only: with GET each is one query parameter and there is no body;  *)
(* with another method they are the body, a flat object, and the URL has   *)
(* no query string; without such arguments a non-GET request has no body.  *)
(***************************************************************************)
C2_QueryOrBody ==
  Invoked =>
    LET rest == Remaining(InvokedPath, InvokedArgs)
        r == fetched[1]
    IN IF ToLowerCase(InvokedMethod) = <<"get">>
       THEN /\ QueryNames(UrlQuery(r.url)) = [i \in 1..Len(rest) |-> Encode(rest[i].k)]
            /\ ~r.hasBody
            /\ r.body = <<>>
       ELSE /\ ~HasQuery(r.url)
            /\ r.hasBody = (rest # <<>>)
            /\ r.body = rest

\* a PUT with a placeholder argument and one other: the other is the body
C2_Witness ==
  /\ Invoked
  /\ ToLowerCase(InvokedMethod) = <<"put">>
  /\ Len(InvokedArgs) = 2
  /\ \E i \in 1..2 : IsPlaceholder(InvokedPath, InvokedArgs[i].k)
  /\ fetched[1].hasBody
  /\ Len(fetched[1].body) = 1

(***************************************************************************)
(* C3: executeApiCall never throws.  On a 2xx answer with a JSON body it   *)
(* returns an envelope with one text item, the pretty-printed body, and no *)
(* isError flag; on a network error, a non-2xx status, a body that is not  *)
(* JSON, or an error raised while the request is built, it returns an      *)
(* envelope with isError and one text item describing the error.           *)
(***************************************************************************)
C3_ExecNeverThrows ==
  /\ returned.state # "threw"
  /\ (call.kind = "exec" /\ call.stage = "done") =>
       LET e == returned.envelope
           o == call.outcome
       IN /\ returned.state = "returned"
          /\ Len(e.content) = 1
          /\ e.content[1].type = "text"
          /\ IF o.kind = "response" /\ Ok(o) /\ o.json
             THEN ~e.isError /\ e.content[1].text = PrettyText(o.body)
             ELSE e.isError /\ e.content[1].text.form = "error"

\* executeApiCall was given a method that is no string and returned
C3_Witness ==
  /\ call.kind = "exec" /\ call.stage = "done"
  /\ call.method = Undef
  /\ returned.state = "returned"
  /\ returned.envelope.isError

(***************************************************************************)
(* C4: when the upstream answers a tool invocation with a non-2xx status,  *)
(* the caller gets an error that carries the status, never a result built  *)
(* from the body: for executeApiCall, for mcp.callTool and for the         *)
(* CallTool request handler.  The claim as stated; POST /mcp and the       *)
(* CallTool handler do not satisfy it.                                     *)
(***************************************************************************)
C4_NonOkIsError ==
  (call.stage = "done" /\ call.outcome.kind = "response" /\ ~Ok(call.outcome)) =>
    IF call.kind = "mcp"
    THEN /\ Len(sent) = 1
         /\ sent[1].kind = "error"
         /\ sent[1].message.err = Err("http", call.outcome.status)
    ELSE /\ returned.envelope.isError
         /\ returned.envelope.content[1].text = ErrorText(Err("http", call.outcome.status))

\* a well-formed mcp.callTool request that names a tool
IsCallTool(rpc) ==
  /\ rpc.hasBody
  /\ rpc.jsonrpc = Str(<<"2.0">>)
  /\ rpc.method = Str(<<"mcp.callTool">>)
  /\ rpc.params.present
  /\ rpc.params.name.t = "string"
  /\ rpc.params.name.s # <<>>

\* the positions of the tools of that name in the registry
NamedTools(name) == {i \in 1..Len(tools) : tools[i].name = name}

(***************************************************************************)
(* C5: mcp.callTool with a name that no tool of the registry has is        *)
(* answered with error -32601 "Tool not found"; with the name of a tool    *)
(* whose metadata has no path or no method it is answered with error       *)
(* -32000 "Invalid tool metadata"; both answers carry the id of the        *)
(* request.                                                                *)
(***************************************************************************)
C5_LookupErrors ==
  (call.kind = "mcp" /\ IsCallTool(call.rpc)) =>
    LET name == call.rpc.params.name.s
    IN /\ NamedTools(name) = {} =>
            /\ Len(sent) = 1
            /\ sent[1].kind = "error"
            /\ sent[1].code = -32601
            /\ sent[1].message.text = "Tool not found: "
            /\ sent[1].message.arg = call.rpc.params.name
            /\ sent[1].id = call.rpc.id
       /\ (/\ NamedTools(name) # {}
           /\ \A i \in NamedTools(name) :
                tools[i].metadata.path = <<>> \/ tools[i].metadata.method = <<>>) =>
            /\ Len(sent) = 1
            /\ sent[1].kind = "error"
            /\ sent[1].code = -32000
            /\ sent[1].message.text = "Invalid tool metadata for: "
            /\ sent[1].id = call.rpc.id

\* a call of the tool built for the empty path key, with an id
C5_Witness ==
  /\ call.kind = "mcp" /\ IsCallTool(call.rpc)
  /\ NamedTools(call.rpc.params.name.s) # {}
  /\ \A i \in NamedTools(call.rpc.params.name.s) : tools[i].metadata.path = <<>>
  /\ call.rpc.id = Str(<<"a">>)
  /\ Len(sent) = 1

(***************************************************************************)
(* C6, as stated: a POST /mcp request whose jsonrpc field is not "2.0", or *)
(* that has no method, is answered with status 400 and error -32600        *)
(* "Invalid Request", whatever its other fields are; a request with        *)
(* jsonrpc "2.0" and another method than mcp.listTools and mcp.callTool is *)
(* answered with error -32601 "Method not found".  In the code a request   *)
(* without a body is answered by the outer catch, and a request whose      *)
(* method is a truthy value that is no string by the error middleware.     *)
(***************************************************************************)
C6_EnvelopeErrors ==
  call.kind = "mcp" =>
    LET rpc == call.rpc
    IN /\ (rpc.jsonrpc # Str(<<"2.0">>) \/ rpc.method = Undef) =>
            /\ Len(sent) = 1
            /\ sent[1].http = 400
            /\ sent[1].kind = "error"
            /\ sent[1].code = -32600
            /\ sent[1].message.text = "Invalid Request"
       /\ (/\ rpc.jsonrpc = Str(<<"2.0">>)
           /\ Truthy(rpc.method)
           /\ rpc.method \notin {Str(<<"mcp.listTools">>), Str(<<"mcp.callTool">>)}) =>
            /\ Len(sent) = 1
            /\ sent[1].kind = "error"
            /\ sent[1].code = -32601
            /\ sent[1].message.text = "Method not found: "

(***************************************************************************)
(* C7: every JSON-RPC error response of POST /mcp has an id field equal to *)
(* the id of the request, 0 and '' included, and null when the request has *)
(* no id.  The claim as stated; the code does not satisfy it.              *)
(***************************************************************************)
C7_ErrorKeepsId ==
  call.kind = "mcp" =>
    \A i \in 1..Len(sent) :
      sent[i].kind = "error" =>
        sent[i].id = (IF call.rpc.id = Undef THEN Null ELSE call.rpc.id)

(***************************************************************************)
(* C8, as stated: a POST /mcp request never gets two responses, and when   *)
(* it has been handled it has got exactly one, a JSON-RPC result or a      *)
(* JSON-RPC error: an exception raised while the request is handled (a     *)
(* request without body, a failing upstream call) becomes an error         *)
(* response.  In the code an exception of the body parser or of the logger *)
(* is answered by the error middleware, with a body that is no JSON-RPC    *)
(* response.                                                               *)
(***************************************************************************)
C8_OneResponse ==
  call.kind = "mcp" =>
    /\ Len(sent) <= 1
    /\ call.stage = "done" =>
         /\ Len(sent) = 1
         /\ sent[1].kind \in {"result", "error"}
    /\ (call.stage = "done" /\ (~call.rpc.hasBody \/ call.outcome.kind = "reject")) =>
         sent[1].kind = "error"

\* the fetch of the specification is over
Fetched == pc \notin {"new", "fetching"}

(***************************************************************************)
(* C9: startup is all or nothing.  When the fetch of the specification has *)
(* failed, or the specification is null or has no paths, the error is      *)
(* logged, the process has exited with code 1, buildTools was not run, no  *)
(* route is registered and the server does not listen; the server listens, *)
(* and the proxy and /mcp routes exist, only when buildTools has completed *)
(* on a specification with paths.                                          *)
(***************************************************************************)
C9_AllOrNothing ==
  /\ (Fetched /\ (swaggerSpec.isNull \/ ~swaggerSpec.hasPaths)) =>
       /\ errorLogged
       /\ exited /\ exitCode = 1
       /\ buildTools = "no"
       /\ routes = {}
       /\ ~listening
  /\ (listening \/ routes # {}) =>
       /\ buildTools = "completed"
       /\ ~swaggerSpec.isNull /\ swaggerSpec.hasPaths
       /\ ~exited
  /\ exited => (exitCode = 1 /\ errorLogged /\ ~listening /\ routes = {})

\* the specification served has no paths and the process has exited
C9_Witness ==
  /\ swaggerSpec = NoPathsDoc
  /\ exited /\ exitCode = 1

\* the (path, verb) pairs of the paths, in order
VerbPairs(ps) == SelectSeq(AllOperations(ps), LAMBDA o : o.key \in HttpVerbs)

(***************************************************************************)
(* C10: buildTools yields one tool per (path, verb) pair of the paths,     *)
(* verb one of the five, with that path and verb as metadata, and none for *)
(* another key of a path item.  The claim as stated; buildTools throws on  *)
(* an operation whose application/json request body has no schema.         *)
(***************************************************************************)
C10_OneToolPerPair ==
  buildTools # "no" =>
    LET pairs == VerbPairs(paths)
    IN /\ Len(tools) = Len(pairs)
       /\ \A i \in 1..Len(pairs) :
            tools[i].metadata = Metadata(pairs[i].path, <<pairs[i].key>>)

\* the name buildTools derives for a (path, verb) pair
PairName(o) == ToolName(o.path, o.key, o.op)

\* the last (path, verb) pair of the paths that yields the name
LastNamed(ps, name) ==
  LET pairs == VerbPairs(ps)
      named == {i \in 1..Len(pairs) : PairName(pairs[i]) = name}
  IN pairs[CHOOSE i \in named : \A j \in named : j <= i]

(***************************************************************************)
(* C11: no two tools of the registry have the same name, and a call by a   *)
(* name that several operations of the paths yield is sent to the path and *)
(* method of the last of them.  The claim as stated, for the documents     *)
(* whose request bodies all declare a schema; registering the second       *)
(* operation of a name throws and startup ends with exit code 1.           *)
(***************************************************************************)
C11_LaterWins ==
  (/\ buildTools # "no"
   /\ \A i \in 1..Len(VerbPairs(paths)) : ~OperationThrows(VerbPairs(paths)[i].op)) =>
    /\ buildTools = "completed"
    /\ \A i, j \in 1..Len(tools) : tools[i].name = tools[j].name => i = j
    /\ \A i \in 1..Len(VerbPairs(paths)) :
         LET o == LastNamed(paths, PairName(VerbPairs(paths)[i]))
         IN \E k \in 1..Len(tools) :
              /\ tools[k].name = PairName(o)
              /\ tools[k].metadata = Metadata(o.path, <<o.key>>)
    /\ (call.kind = "mcp" /\ IsCallTool(call.rpc) /\ Len(fetched) = 1) =>
         LET o == LastNamed(paths, call.rpc.params.name.s)
         IN fetched[1] = McpBuild(o.path, <<o.key>>,
                                  ArgumentsOrEmpty(call.rpc.params.arguments))

\* the path and query parameters of an operation that are flagged required
RequiredParams(op) ==
  IF op.hasParameters
  THEN SelectSeq(op.parameters, LAMBDA p : p.in \in {"path", "query"} /\ p.required)
  ELSE <<>>

\* a tool object has an inputSchema in which every required parameter of the
\* operation is a property and is listed as required
CarriesSchema(tool, op) ==
  /\ "inputSchema" \in DOMAIN tool
  /\ \A i \in 1..Len(RequiredParams(op)) :
       LET n == RequiredParams(op)[i].name
       IN /\ \E k \in 1..Len(tool.inputSchema.properties) :
               tool.inputSchema.properties[k].name = n
          /\ InSeq(n, tool.inputSchema.required)

(***************************************************************************)
(* C12: every tool of the registry, and every tool of an mcp.listTools     *)
(* response, has an inputSchema whose properties and required list hold    *)
(* the name of every required path or query parameter of its operation.    *)
(* The claim as stated; the tools that index.js keeps in the registry have *)
(* a name, a description and metadata, and no inputSchema.                 *)
(***************************************************************************)
C12_ToolsCarrySchema ==
  buildTools = "completed" =>
    /\ \A i \in 1..Len(tools) : CarriesSchema(tools[i], VerbPairs(paths)[i].op)
    /\ (call.kind = "mcp" /\ Len(sent) = 1 /\ sent[1].kind = "result"
        /\ call.rpc.method = Str(<<"mcp.listTools">>)) =>
         \A i \in 1..Len(sent[1].tools) :
           CarriesSchema(sent[1].tools[i], VerbPairs(paths)[i].op)

(***************************************************************************)
(* A ResponseCache and its callers: set, get, remove, clear, cleanup (also *)
(* run by the cleanup timer) and getOrFetch, whose producer resolves or    *)
(* rejects later, while time passes.                                       *)
(***************************************************************************)
\* largest maxSize of a cache
MaxSize == 2
\* the clock runs from 0 to MaxClock
MaxClock == 2
\* largest number of getOrFetch calls that await their producer, and of the
\* keys they are for
MaxPending == 2
MaxPendingKeys == 1

CacheKeys == {"k1", "k2", "k3"}
\* the values given to set, the values a producer returns, the ttl arguments
CacheData == {Str(<<"a">>), Null}
Produced  == {Str(<<"a">>), Str(<<"b">>), Null, Undef}
TtlInputs == {Undef, Num(0), Num(1)}
FetchTtls == {Undef, Num(0)}

\* the caches new ResponseCache(options) makes
TestCaches ==
  {NewCache(CacheOptions(Num(2), Num(m), e, Undef)) : m \in 1..MaxSize, e \in {Undef, Bool(FALSE)}}

CacheInit ==
  /\ ServerNew
  /\ cache \in TestCaches
  /\ now = 0
  /\ inflight = <<>>
  /\ last = NoOp
  /\ PagingIdle

\* what the operations on the cache leave alone
offCache == <<startup, serving, paging, proxied, extra, timerDue>>

CallSet ==
  /\ \E key \in CacheKeys, data \in CacheData, ttl \in TtlInputs :
       /\ cache' = Set(cache, key, data, ttl, now)
       /\ last' = Op("set", key, data, TtlOrDefault(cache, ttl), "returned",
                     Len(cache.entries))
  /\ UNCHANGED <<now, inflight, offCache>>

CallGet ==
  /\ \E key \in CacheKeys :
       LET got == Get(cache, key, now)
       IN /\ cache' = got.cache
          /\ last' = Op("get", key, got.value, 0, "returned", Len(cache.entries))
  /\ UNCHANGED <<now, inflight, offCache>>

CallRemove ==
  /\ \E key \in CacheKeys :
       /\ cache' = Remove(cache, key)
       /\ last' = Op("remove", key, Undef, 0, "returned", Len(cache.entries))
  /\ UNCHANGED <<now, inflight, offCache>>

CallClear ==
  /\ cache' = Clear(cache)
  /\ last' = Op("clear", "", Undef, 0, "returned", Len(cache.entries))
  /\ UNCHANGED <<now, inflight, offCache>>

\* dispose(): clearInterval stops the timer, a callback that is due included
CallDispose ==
  /\ cache' = Dispose(cache)
  /\ timerDue' = FALSE
  /\ last' = Op("dispose", "", Undef, 0, "returned", Len(cache.entries))
  /\ UNCHANGED <<now, inflight, startup, serving, paging, proxied, extra>>

CallCleanup ==
  /\ cache' = Cleanup(cache, now)
  /\ last' = Op("cleanup", "", Undef, 0, "returned", Len(cache.entries))
  /\ UNCHANGED <<now, inflight, offCache>>

\* the keys of the getOrFetch calls that await their producer
PendingKeys == {inflight[i].key : i \in 1..Len(inflight)}

\* getOrFetch down to the await of fetchFn()
CallGetOrFetch ==
  /\ Len(inflight) < MaxPending
  /\ \E key \in CacheKeys, ttl \in FetchTtls :
       LET b == GetOrFetchBegin(cache, key, ttl, now)
       IN /\ Cardinality(PendingKeys \cup {key}) <= MaxPendingKeys
          /\ cache' = b.cache
          /\ IF b.hit
             THEN /\ last' = Op("getOrFetch", key, b.value, 0, "returned",
                                 Len(cache.entries))
                  /\ UNCHANGED inflight
             ELSE /\ last' = Op("getOrFetch", key, Undef, 0, "pending",
                                 Len(cache.entries))
                  /\ inflight' = Append(inflight, b.pending)
  /\ UNCHANGED <<now, offCache>>

\* the sequence without its i-th element
Without(seq, i) == SubSeq(seq, 1, i - 1) \o SubSeq(seq, i + 1, Len(seq))

\* the producer of a pending getOrFetch resolves: the rest of getOrFetch
ProducerResolves ==
  /\ \E i \in 1..Len(inflight), value \in Produced :
       /\ cache' = GetOrFetchEnd(cache, inflight[i], value, now)
       /\ inflight' = Without(inflight, i)
       /\ last' = Op("produced", inflight[i].key, value,
                     TtlOrDefault(cache, inflight[i].ttl), "returned", Len(cache.entries))
  /\ UNCHANGED <<now, offCache>>

\* a variant in which the failed call empties the Map
ProducerRejectsClearing ==
  /\ \E i \in 1..Len(inflight) :
       /\ inflight' = Without(inflight, i)
       /\ last' = Op("rejected", inflight[i].key, Undef, 0, "threw", Len(cache.entries))
  /\ cache' = Clear(cache)
  /\ UNCHANGED <<now, offCache>>

\* the producer throws or rejects: getOrFetch rejects with the error
ProducerRejects ==
  /\ \E i \in 1..Len(inflight) :
       /\ inflight' = Without(inflight, i)
       /\ last' = Op("rejected", inflight[i].key, Undef, 0, "threw", Len(cache.entries))
  /\ UNCHANGED <<cache, now, offCache>>

\* time passes
Tick ==
  /\ now < MaxClock
  /\ now' = now + 1
  /\ last' = Op("tick", "", Undef, 0, "returned", Len(cache.entries))
  /\ UNCHANGED <<cache, inflight, offCache>>

CacheNext ==
  \/ CallSet
  \/ CallGet
  \/ CallRemove
  \/ CallClear
  \/ CallDispose
  \/ CallCleanup
  \/ CallGetOrFetch
  \/ ProducerResolves
  \/ ProducerRejects
  \/ Tick

CacheSpec == CacheInit /\ [][CacheNext]_vars

\* the entry stored under a key: << the entry >>, or << >>
Stored(c, key) ==
  IF MapIndex(c.entries, key) = 0 THEN <<>> ELSE <<c.entries[MapIndex(c.entries, key)]>>

\* the operation that has just returned was a get on an enabled cache
GetReturned == last'.op = "get" /\ cache.enabled

\* set(k, v, ttl) has just returned and get(k) is the next operation
GetAfterSet == GetReturned /\ last.op = "set" /\ last'.key = last.key

\* a get of a key whose entry expired before the current time
GetExpired ==
  /\ GetReturned
  /\ Stored(cache, last'.key) # <<>>
  /\ Stored(cache, last'.key)[1].expiry < now

\* that get returns null and the key is no longer in the Map
ExpiredIsMiss == GetExpired => (last'.value = Null /\ Stored(cache', last'.key) = <<>>)

(***************************************************************************)
(* C13, as stated: on an enabled cache a get(k) that follows set(k, v,     *)
(* ttl) at once returns v, for every ttl; a get(k) made when more than ttl *)
(* has passed since the set that stored the entry of k returns null and    *)
(* removes the entry.  Violated by a set with ttl 0.                       *)
(***************************************************************************)
C13_CacheLaw ==
  [][(GetAfterSet => last'.value = last.value) /\ ExpiredIsMiss]_vars

(***************************************************************************)
(* C13, amended: on an enabled cache a get(k) that follows set(k, v, ttl)  *)
(* with ttl > 0 at once returns v, and for ttl = 0 it returns null; a      *)
(* get(k) made when more than ttl has passed since the set that stored the *)
(* entry of k returns null and removes the entry.                          *)
(***************************************************************************)
C13_CacheLawPositiveTtl ==
  [][/\ GetAfterSet => last'.value = (IF last.ttl > 0 THEN last.value ELSE Null)
     /\ ExpiredIsMiss]_vars

\* a get returned the value of an entry that has lived for a tick
C13_Witness ==
  /\ cache.enabled
  /\ last.op = "get"
  /\ last.value = Str(<<"a">>)
  /\ now > 0

(***************************************************************************)
(* C14: the Map of a cache never holds more than maxSize entries, whatever *)
(* set, get, getOrFetch, remove, cleanup and clear calls were made and     *)
(* however much time passed between them.                                  *)
(***************************************************************************)
C14_Bounded == Len(cache.entries) <= cache.maxSize

\* a set on a full cache of two entries has returned and the cache is full
C14_Witness ==
  /\ cache.maxSize = 2
  /\ last.op = "set"
  /\ last.size = 2
  /\ Len(cache.entries) = 2

\* the keys of the Map
StoredKeys(c) == {c.entries[i].key : i \in 1..Len(c.entries)}

\* set has just been called on an enabled cache that was full: directly, or
\* by getOrFetch with the value of its producer
SetOnFull ==
  /\ cache.enabled
  /\ Len(cache.entries) >= cache.maxSize
  /\ \/ last'.op = "set"
     \/ /\ last'.op = "produced"
        /\ last'.value.t \notin {"null", "undefined"}
        /\ \E i \in 1..Len(inflight) :
             inflight[i].key = last'.key /\ inflight[i].store /\ inflight' = Without(inflight, i)

(***************************************************************************)
(* C15: a set on a cache that holds maxSize entries evicts exactly one     *)
(* entry before it inserts; no stored entry expires earlier than the       *)
(* evicted one; every other stored entry is still in the Map afterwards,   *)
(* unchanged unless it is the entry of the key that is set.                *)
(***************************************************************************)
C15_EvictsEarliest ==
  [][SetOnFull =>
       \E i \in 1..Len(cache.entries) :
         LET old == cache.entries[i]
         IN /\ \A j \in 1..Len(cache.entries) : old.expiry <= cache.entries[j].expiry
            /\ StoredKeys(cache') = (StoredKeys(cache) \ {old.key}) \cup {last'.key}
            /\ \A j \in 1..Len(cache.entries) :
                 cache.entries[j].key \notin {old.key, last'.key} =>
                   Stored(cache', cache.entries[j].key) = <<cache.entries[j]>>]_vars

\* a set of a third key on a full cache of two entries has returned
C15_Witness ==
  /\ cache.maxSize = 2
  /\ last.op = "set"
  /\ last.size = 2
  /\ Len(cache.entries) = 2
  /\ cache.entries[2].key = last.key
  /\ cache.entries[1].expiry > cache.entries[2].expiry

\* the key has an entry that has not expired
Live(c, key, t) == Stored(c, key) # <<>> /\ Stored(c, key)[1].expiry > t

\* getOrFetch has just been called on an enabled cache
GetOrFetchCalled == last'.op = "getOrFetch" /\ cache.enabled

(***************************************************************************)
(* C16, as stated: getOrFetch on an enabled cache returns the value of a   *)
(* live entry of the key without invoking its producer; for a key without  *)
(* live entry it invokes the producer once and returns what it produced,   *)
(* which is stored under the key if and only if it is neither null nor     *)
(* undefined; a getOrFetch of the key that follows within the ttl returns  *)
(* that value without invoking its producer.  The code takes a live entry  *)
(* that holds null for a miss.                                             *)
(***************************************************************************)
C16_GetOrFetch ==
  [][/\ (GetOrFetchCalled /\ Live(cache, last'.key, now)) =>
          /\ last'.stage = "returned"
          /\ last'.value = Stored(cache, last'.key)[1].data
          /\ inflight' = inflight
     /\ (GetOrFetchCalled /\ ~Live(cache, last'.key, now)) =>
          /\ last'.stage = "pending"
          /\ Len(inflight') = Len(inflight) + 1
     /\ (last'.op = "produced" /\ cache.enabled) =>
          /\ Len(inflight') = Len(inflight) - 1
          /\ IF last'.value.t \in {"null", "undefined"}
             THEN Stored(cache', last'.key) = Stored(cache, last'.key)
             ELSE /\ Stored(cache', last'.key) # <<>>
                  /\ Stored(cache', last'.key)[1].data = last'.value
     /\ (/\ GetOrFetchCalled
         /\ last.op = "produced" /\ last.key = last'.key /\ last.ttl > 0
         /\ last.value.t \notin {"null", "undefined"}) =>
          /\ last'.stage = "returned"
          /\ last'.value = last.value
          /\ inflight' = inflight]_vars

(***************************************************************************)
(* The callers of the pagination helper: extractPaginationInfo on a        *)
(* response, and autoPaginate with a fetchFn that answers each call with   *)
(* any of the pages.                                                       *)
(***************************************************************************)
\* largest maxPages and maxItems option of an autoPaginate call
MaxPages == 2
MaxItems == 3

\* the responses with page, limit, totalItems and possibly total, totalPages
PageLimitResponses ==
  {[EmptyObject EXCEPT !.page = Num(p), !.limit = Num(l), !.totalItems = Num(n),
                       !.total = total, !.totalPages = pages] :
     p \in 0..3, l \in {1, 2, 10}, n \in {0, 1, 3, 25},
     total \in {Undef, Num(7)}, pages \in {Undef, Num(0), Num(5)}}

\* responses of the other shapes, and responses that are no object
OtherResponses ==
  {[EmptyObject EXCEPT !.page = Num(1), !.limit = Num(0), !.total = Num(7)],
   [EmptyObject EXCEPT !.current_page = Num(1), !.per_page = Num(2), !.total = Num(5)],
   [EmptyObject EXCEPT !.current_page = Num(3), !.per_page = Num(2), !.total = Num(5),
                       !.last_page = Num(3)],
   [EmptyObject EXCEPT !.offset = Num(2), !.limit = Num(2), !.count = Num(5)],
   [EmptyObject EXCEPT !.offset = Num(4), !.limit = Num(2), !.count = Num(5)],
   [EmptyObject EXCEPT !.meta = MetaPagination(Num(1), Num(2), Num(3), Num(5))],
   [EmptyObject EXCEPT !.meta = MetaPagination(Num(1), Num(2), Undef, Undef)],
   EmptyObject, ArrayResponse(<<"x">>), Null, Undef, Num(0), Str(<<"page">>)}

PageInputs == PageLimitResponses \cup OtherResponses

\* what the calls of the helper leave alone
offPaging == <<startup, serving, caching, proxied, extra, timerDue>>

PagingFree == pg = NoPageCall /\ ap.pc = "idle" /\ ~np.called

\* the pagination infos given to getNextPageParams: null, and infos with and
\* without currentPage, pageSize and offset
InfoInputs ==
  {Null} \cup
  {[PaginationInfo(currentPage, pageSize, Num(35), Undef, hasMore) EXCEPT !.offset = offset] :
     currentPage \in {Undef, Num(1)}, pageSize \in {Undef, Num(10)},
     offset \in {Undef, Num(0), Num(20)}, hasMore \in BOOLEAN}

\* what a call of getNextPageParams leaves alone
offNext == <<pg, ap, startup, serving, caching, proxied, built, flights, sessions,
             timerDue>>

CallGetNextPageParams ==
  /\ PagingFree
  /\ \E info \in InfoInputs : np' = NextCall(TRUE, info, GetNextPageParams(info))
  /\ UNCHANGED offNext

\* the caller has the parameters
NextReturn ==
  /\ np.called
  /\ np' = NoNextCall
  /\ UNCHANGED offNext

CallExtractPaginationInfo ==
  /\ PagingFree
  /\ \E response \in PageInputs :
       pg' = PageCall(TRUE, response, ExtractPaginationInfo(response))
  /\ UNCHANGED <<ap, offPaging>>

\* the caller has the info
PageReturn ==
  /\ pg.called
  /\ pg' = NoPageCall
  /\ UNCHANGED <<ap, offPaging>>

\* the pages fetchFn may answer with: more pages or not, with an array under
\* items or data, without array, a bare array, null
MorePages == [EmptyObject EXCEPT !.page = Num(1), !.limit = Num(2), !.totalItems = Num(25)]
LastPage  == [EmptyObject EXCEPT !.page = Num(3), !.limit = Num(2), !.totalItems = Num(5)]
FetchedPages ==
  {[MorePages EXCEPT !.arrays = <<ArrayProp("items", <<"x", "y">>)>>],
   [MorePages EXCEPT !.arrays = <<ArrayProp("rows", <<>>)>>],
   MorePages,
   [LastPage EXCEPT !.arrays = <<ArrayProp("data", <<"z">>)>>],
   [EmptyObject EXCEPT !.arrays = <<ArrayProp("data", <<"x", "y">>)>>],
   ArrayResponse(<<"z">>),
   Null}

StyleInputs == {"page-limit", "offset-limit", "page-per_page"}
ParamInputs == {NoPageParams, PageParams(Num(1), Num(2), Undef, Undef)}

\* a variant of the loop condition without the page count
LoopUncounted(a) == Len(a.allResults) < a.maxItems

\* pageCount < maxPages && allResults.length < maxItems
LoopCondition(a) == a.pageCount < a.maxPages /\ Len(a.allResults) < a.maxItems

\* the head of the loop: when the condition holds fetchFn(currentParams) is
\* called and awaited, when it fails allResults is returned
LoopTurn(a) ==
  IF LoopCondition(a)
  THEN [a EXCEPT !.calls = Append(a.calls, a.currentParams), !.pc = "awaiting"]
  ELSE [a EXCEPT !.pc = "done"]

\* autoPaginate(fetchFn, initialParams, options) down to its first await, or
\* to its return when the loop is not entered
AutoPaginateCall ==
  /\ PagingFree
  /\ \E maxPages \in 0..MaxPages, maxItems \in 0..MaxItems,
        targetStyle \in StyleInputs, initialParams \in ParamInputs :
       ap' = LoopTurn(AutoPaginate("loop", PageOptions(maxPages, maxItems, targetStyle),
                                   <<>>, initialParams, 0, <<>>, <<>>))
  /\ UNCHANGED <<pg, offPaging>>

\* the body of the loop after the await, with the response of
\* fetchFn(currentParams): pc is "done" after a break, "loop" otherwise
LoopBody(a, response) ==
  LET data == ExtractData(response)
      info == ExtractPaginationInfo(response)
      allResults == IF data # <<>> THEN a.allResults \o data[1] ELSE a.allResults
      fetched_ == [a EXCEPT !.allResults = allResults,
                            !.pages = Append(a.pages, response),
                            !.pc = "loop"]
      nextPageParams == GetNextPageParams(info)
  IN IF Len(allResults) >= a.maxItems THEN [fetched_ EXCEPT !.pc = "done"]
     ELSE IF info.t # "object" THEN [fetched_ EXCEPT !.pc = "done"]
     ELSE IF ~info.hasMore THEN [fetched_ EXCEPT !.pc = "done"]
     ELSE IF nextPageParams = <<>> THEN [fetched_ EXCEPT !.pc = "done"]
     ELSE [fetched_ EXCEPT
             !.currentParams =
               Spread(a.currentParams,
                      TransformPaginationParams(nextPageParams[1], a.targetStyle)),
             !.pageCount = a.pageCount + 1]

\* fetchFn returns a page: the rest of the loop body runs and, unless it
\* breaks, the head of the loop
AutoPaginateAnswer ==
  /\ ap.pc = "awaiting"
  /\ \E response \in FetchedPages :
       LET b == LoopBody(ap, response)
       IN ap' = IF b.pc = "done" THEN b ELSE LoopTurn(b)
  /\ UNCHANGED <<pg, offPaging>>

\* the caller has the results
AutoPaginateFinish ==
  /\ ap.pc = "done"
  /\ ap' = NoAutoPaginate
  /\ UNCHANGED <<pg, offPaging>>

PageNext ==
  \/ CallExtractPaginationInfo
  \/ PageReturn
  \/ AutoPaginateCall
  \/ AutoPaginateAnswer
  \/ AutoPaginateFinish
  \/ CallGetNextPageParams
  \/ NextReturn

PageSpec == Init /\ [][PageNext]_vars

\* every fetchFn call returns
PageLive ==
  /\ Init
  /\ [][PageNext]_vars
  /\ WF_vars(AutoPaginateAnswer)

\* the response has page, limit and totalItems, natural numbers with
\* limit > 0, and no totalPages
PageLimitTotal(r) ==
  /\ r.t = "object"
  /\ r.page.t = "number" /\ r.limit.t = "number" /\ r.totalItems.t = "number"
  /\ r.limit.n > 0
  /\ r.totalPages = Undef

(***************************************************************************)
(* C17, as stated: for a response with page, limit and totalItems, limit   *)
(* positive, and without totalPages, extractPaginationInfo returns         *)
(* currentPage = page, pageSize = limit, totalItems = totalItems,          *)
(* totalPages = ceil(totalItems / limit) and hasMore = (page <             *)
(* totalPages).  The code does not return this when totalItems is 0.       *)
(***************************************************************************)
C17_PageLimitInfo ==
  (pg.called /\ PageLimitTotal(pg.response)) =>
    LET r == pg.response
        pages == (r.totalItems.n + r.limit.n - 1) \div r.limit.n
    IN pg.info = PaginationInfo(r.page, r.limit, r.totalItems, Num(pages),
                                r.page.n < pages)

\* the array that autoPaginate takes from a page, empty when it takes none
PageItems(response) ==
  IF ExtractData(response) = <<>> THEN <<>> ELSE ExtractData(response)[1]

RECURSIVE Concat(_)
\* the concatenation of the arrays of the pages, in order
Concat(pages) ==
  IF pages = <<>> THEN <<>> ELSE PageItems(Head(pages)) \o Concat(Tail(pages))

\* fetchFn is called again after the i-th page only if the items so far are
\* fewer than maxItems and the page has pagination info with hasMore
GoesOn(a, i) ==
  /\ Len(Concat(SubSeq(a.pages, 1, i))) < a.maxItems
  /\ ExtractPaginationInfo(a.pages[i]).t = "object"
  /\ ExtractPaginationInfo(a.pages[i]).hasMore

\* what holds of an autoPaginate call at every moment
AutoPaginateBounded ==
  /\ Len(ap.calls) <= ap.maxPages
  /\ Len(ap.pages) = Len(ap.calls) - (IF ap.pc = "awaiting" THEN 1 ELSE 0)
  /\ \A i \in 1..(Len(ap.calls) - 1) : GoesOn(ap, i)
  /\ ap.pc = "done" => ap.allResults = Concat(ap.pages)

(***************************************************************************)
(* C18: every autoPaginate call whose fetchFn returns comes to its end,    *)
(* also when every page reports hasMore; it calls fetchFn at most maxPages *)
(* times, and not again once the items have reached maxItems or a page has *)
(* no pagination info or reports hasMore false; it returns the             *)
(* concatenation, in call order, of the arrays of the pages.               *)
(***************************************************************************)
C18_AutoPaginateEnds ==
  /\ []AutoPaginateBounded
  /\ (ap.pc = "awaiting") ~> (ap.pc = "done")

\* a call ended by maxPages: two pages fetched, the second with hasMore,
\* fewer items than maxItems
C18_Witness ==
  /\ ap.pc = "done"
  /\ ap.maxPages = 2
  /\ Len(ap.calls) = 2
  /\ GoesOn(ap, 2)

(***************************************************************************)
(* The Express application and the proxy route of setupExpressProxy.       *)
(* Express runs the layers of the application in the order of their        *)
(* registration; next(err) goes on to the error-handling layers registered *)
(* after the layer that called it, and when there is none the final        *)
(* handler of Express answers the request.                                 *)
(***************************************************************************)
\* the proxy requests in progress at a time
MaxRequests == 1
\* the times a proxy run lets the period of the cleanup timer pass
MaxTicks == 3

\* res.json(formattedResponse)
ProxyAnswer(data) == HttpAnswer("route", 200, TRUE, FormatPaginatedResponse(data))

\* a GET /api/LpcReport/:lpcId request: its parameter, "fetching" or "done",
\* the getOrFetch call that awaits the upstream, the error caught, the answer
ProxyRequestOf(lpcId, stage, pending, failed, err, answer) ==
  [lpcId |-> lpcId, stage |-> stage, pending |-> pending, failed |-> failed,
   err |-> err, answer |-> answer]

LpcIds == {"42", "7"}

\* `report_${lpcId}`
ReportKey(lpcId) == <<"report_", lpcId>>

\* what the upstream answers with status 2xx: a page of a list, an object, null
ProxyBodies ==
  {[MorePages EXCEPT !.arrays = <<ArrayProp("items", <<"x", "y">>)>>], EmptyObject, Null}

\* how the producer fails: the upstream answers with a non-2xx status, the
\* status 0 of an opaque answer included, or fetch or response.json() throws
ProxyFailures ==
  {Failure("API responded with 404", Num(404)),
   Failure("API responded with 503", Num(503)),
   Failure("API responded with 304", Num(304)),
   Failure("fetch failed", Undef),
   Failure("Unexpected token", Undef)}

\* what the proxy requests leave alone
offTimer == <<startup, serving, paging, inflight, last, extra>>
offProxy == <<offTimer, timerDue>>

ProxyRoute == "GET /api/LpcReport/:lpcId"

\* the route handler down to the await of the upstream, or to res.json when
\* the report cache has the report
ProxyRequest ==
  /\ listening
  /\ ProxyRoute \in routes
  /\ Len(proxied) < MaxRequests
  /\ \E lpcId \in LpcIds :
       LET r == GetOrFetchBegin(cache, ReportKey(lpcId), Undef, now)
       IN /\ cache' = r.cache
          /\ proxied' = Append(proxied,
               IF r.hit
               THEN ProxyRequestOf(lpcId, "done", r.pending, FALSE, NoFailure,
                                   ProxyAnswer(r.value))
               ELSE ProxyRequestOf(lpcId, "fetching", r.pending, FALSE, NoFailure,
                                   NoHttpAnswer))
  /\ UNCHANGED <<now, offProxy>>

\* the upstream answers with a body: getOrFetch stores and returns it, and
\* the handler answers with the formatted response
ProxyUpstream ==
  /\ \E i \in 1..Len(proxied) :
       /\ proxied[i].stage = "fetching"
       /\ \E data \in ProxyBodies :
            /\ cache' = GetOrFetchEnd(cache, proxied[i].pending, data, now)
            /\ proxied' = [proxied EXCEPT ![i].stage = "done",
                                          ![i].answer = ProxyAnswer(data)]
  /\ UNCHANGED <<now, offProxy>>

\* the producer throws: getOrFetch rejects, the handler catches the error
\* and calls next(error)
ProxyUpstreamFails ==
  /\ \E i \in 1..Len(proxied) :
       /\ proxied[i].stage = "fetching"
       /\ \E err \in ProxyFailures :
            proxied' = [proxied EXCEPT
                          ![i].stage = "done", ![i].failed = TRUE, ![i].err = err,
                          ![i].answer = NextError(Stack, LayerIndex(Stack, ProxyRoute), err)]
  /\ UNCHANGED <<cache, now, offProxy>>

\* the client has the answer
ProxyDone ==
  /\ \E i \in 1..Len(proxied) :
       /\ proxied[i].stage = "done"
       /\ proxied' = Without(proxied, i)
  /\ UNCHANGED <<cache, now, offProxy>>

\* the period of the cleanup timer of the report cache passes: the timer
\* fires, its callback runs at this time or later
ProxyTick ==
  /\ listening
  /\ cache.cleanupInterval > 0
  /\ ~timerDue
  /\ now < MaxTicks * cache.cleanupInterval
  /\ now' = now + cache.cleanupInterval
  /\ timerDue' = TRUE
  /\ UNCHANGED <<cache, proxied, offTimer>>

\* the callback of the timer: this.cleanup()
ProxyCleanup ==
  /\ timerDue
  /\ cache' = Cleanup(cache, now)
  /\ timerDue' = FALSE
  /\ UNCHANGED <<now, proxied, offTimer>>

ProxyNext ==
  \/ InitStart
  \/ FetchSwaggerFails
  \/ FetchSwagger
  \/ RunBuildTools
  \/ SetupExpressProxy
  \/ StartExpressServer
  \/ SetupSSEEndpoints
  \/ ProxyRequest
  \/ ProxyUpstream
  \/ ProxyUpstreamFails
  \/ ProxyDone
  \/ ProxyTick
  \/ ProxyCleanup

ProxySpec == Init /\ [][ProxyNext]_vars

(***************************************************************************)
(* C19, as stated: when the proxy route fails, upstream non-2xx status or  *)
(* network error, ErrorHandler.expressErrorHandler answers the request,    *)
(* with a JSON body {status, message, requestId, timestamp} and with the   *)
(* status of the error when it has one, and 500 otherwise.  In the code    *)
(* the error middleware is registered before the route, and next(error)    *)
(* never reaches it.                                                       *)
(***************************************************************************)
C19_ProxyErrorsFormatted ==
  \A i \in 1..Len(proxied) :
    proxied[i].failed =>
      /\ proxied[i].answer.by = "expressErrorHandler"
      /\ proxied[i].answer.json
      /\ proxied[i].answer.body.t = "error"
      /\ proxied[i].answer.body.message = proxied[i].err.message
      /\ proxied[i].answer.status =
           (IF proxied[i].err.status.t = "number" THEN proxied[i].err.status.n ELSE 500)
      /\ proxied[i].answer.body.status = Num(proxied[i].answer.status)

(***************************************************************************)
(* Overlapping getOrFetch calls.                                           *)
(***************************************************************************)
\* a getOrFetch call misses on an enabled cache while another call for the
\* same key awaits its producer
OverlappingMiss ==
  /\ last'.op = "getOrFetch"
  /\ last'.key \in PendingKeys
  /\ cache.enabled
  /\ Get(cache, last'.key, now).value.t = "null"

\* that call awaits a producer of its own, and the other call is as it was
OwnProducer ==
  /\ Len(inflight') = Len(inflight) + 1
  /\ SubSeq(inflight', 1, Len(inflight)) = inflight
  /\ inflight'[Len(inflight')].key = last'.key

\* the producers of two calls for one key that were pending together have
\* resolved, one after the other, on an enabled cache
OverlapEnds ==
  /\ last.op = "produced" /\ last'.op = "produced"
  /\ last'.key = last.key
  /\ Len(inflight') = Len(inflight) - 1
  /\ cache.enabled

\* the key holds the value the call that ended has returned
HoldsReturned ==
  /\ Stored(cache', last'.key) # <<>>
  /\ Stored(cache', last'.key)[1].data = last'.value

(***************************************************************************)
(* C21, as stated: of two getOrFetch calls for one key that overlap, the   *)
(* second starting while the producer of the first is pending on a miss,   *)
(* both invoke their producer, each returns the value of its own producer, *)
(* and after both have completed the key holds the value of the producer   *)
(* that finished last.  Violated when that producer returns null or        *)
(* undefined, which getOrFetch does not store.                             *)
(***************************************************************************)
C21_LastProducerWins ==
  [][/\ OverlappingMiss => OwnProducer
     /\ OverlapEnds => HoldsReturned]_vars

(***************************************************************************)
(* C21, amended: of two getOrFetch calls for one key that overlap, both    *)
(* invoke their producer and each returns the value of its own producer;   *)
(* after both have completed the key holds the value of the producer that  *)
(* finished last when that value is neither null nor undefined, and        *)
(* otherwise the cache is as the call that finished first left it.         *)
(***************************************************************************)
C21_LastStoredProducerWins ==
  [][/\ OverlappingMiss => OwnProducer
     /\ OverlapEnds =>
          IF last'.value.t \in {"null", "undefined"} THEN cache' = cache
          ELSE HoldsReturned]_vars

\* one of two calls for a key has returned the value of its producer, which
\* the key now holds, and the other still awaits its producer
C21_Witness ==
  /\ cache.enabled
  /\ last.op = "produced"
  /\ last.value = Str(<<"a">>)
  /\ Len(inflight) = 1
  /\ inflight[1].key = last.key
  /\ Stored(cache, last.key) # <<>>
  /\ Stored(cache, last.key)[1].data = last.value

(***************************************************************************)
(* cleanup.                                                                *)
(***************************************************************************)
\* cleanup() has just returned
CleanupReturned == last'.op = "cleanup"

\* the entry is not in the Map after the step
Gone(e) == Stored(cache', e.key) = <<>>

\* the entry is in the Map after the step as it was, and get returns its data
Kept(e) ==
  /\ Stored(cache', e.key) = <<e>>
  /\ Get(cache', e.key, now').value = e.data

(***************************************************************************)
(* C25: cleanup() removes every entry whose expiry is not later than the   *)
(* current time, and every entry that is live when cleanup runs keeps its  *)
(* value and its expiry and is returned by a get that follows.             *)
(***************************************************************************)
C25_CleanupRemovesExpiredOnly ==
  [][CleanupReturned =>
       /\ \A i \in 1..Len(cache.entries) :
            IF cache.entries[i].expiry <= now THEN Gone(cache.entries[i])
            ELSE Kept(cache.entries[i])
       /\ Len(cache'.entries) <= Len(cache.entries)]_vars

\* cleanup removed an entry and left a live one
C25_Witness ==
  /\ last.op = "cleanup"
  /\ last.size = 2
  /\ Len(cache.entries) = 1
  /\ cache.entries[1].expiry > now

(***************************************************************************)
(* A getOrFetch whose producer fails.                                      *)
(***************************************************************************)
\* a getOrFetch call has missed and awaits its producer
MissBegins == last'.op = "getOrFetch" /\ last'.stage = "pending"

\* the producer of a call has thrown or rejected
Rejects == last'.op = "rejected"

\* the getOrFetch call that follows a failed one for the same key
NextAfterRejected ==
  last.op = "rejected" /\ last'.op = "getOrFetch" /\ last'.key = last.key

\* the key has a live entry with a value other than null
LiveValue(c, key, t) ==
  /\ c.enabled
  /\ Stored(c, key) # <<>>
  /\ Stored(c, key)[1].expiry > t
  /\ Stored(c, key)[1].data.t # "null"

(***************************************************************************)
(* C27, as stated: a getOrFetch whose producer throws or rejects rejects   *)
(* with that error and leaves the cache exactly as it was, and the next    *)
(* getOrFetch for the same key invokes its producer again.  Violated: the  *)
(* lookup of the call removes an expired entry of the key, and the next    *)
(* call is a hit when an overlapping call has stored the key.              *)
(***************************************************************************)
C27_FailedFetchLeavesCache ==
  [][/\ MissBegins => cache' = cache
     /\ Rejects => (cache' = cache /\ last'.stage = "threw")
     /\ NextAfterRejected => last'.stage = "pending"]_vars

(***************************************************************************)
(* C27, amended: a getOrFetch whose producer throws or rejects rejects     *)
(* with that error and stores nothing: the only change it makes to the     *)
(* cache is that its lookup removes an expired entry of the key.  The next *)
(* getOrFetch for the same key invokes its producer again unless the key   *)
(* has a live entry that another call stored.                              *)
(***************************************************************************)
C27_FailedFetchStoresNothing ==
  [][/\ MissBegins =>
          cache' = [cache EXCEPT !.entries =
                      SelectSeq(cache.entries,
                                LAMBDA e : e.key # last'.key \/ e.expiry > now)]
     /\ Rejects => (cache' = cache /\ last'.stage = "threw")
     /\ (NextAfterRejected /\ ~LiveValue(cache, last'.key, now)) =>
          last'.stage = "pending"]_vars

\* a call has failed on a cache that holds an entry, with no other call pending
C27_Witness ==
  /\ cache.enabled
  /\ last.op = "rejected"
  /\ last.stage = "threw"
  /\ Len(cache.entries) = 1
  /\ inflight = <<>>

(***************************************************************************)
(* set on a stored key.                                                    *)
(***************************************************************************)
\* set(k, v, ttl) has just returned on an enabled cache that held k
SetOnStored ==
  /\ last'.op = "set"
  /\ cache.enabled
  /\ Stored(cache, last'.key) # <<>>

(***************************************************************************)
(* C29, as stated: set(k, v, ttl) on a key that is already stored only     *)
(* replaces the value and expiry of that key: every other entry is left    *)
(* unchanged and the number of entries stays the same, also when the cache *)
(* holds maxSize entries.  The code evicts an entry before it looks at the *)
(* key when the cache holds maxSize entries.                               *)
(***************************************************************************)
C29_SetOnStoredKeepsOthers ==
  [][SetOnStored =>
       /\ Len(cache'.entries) = Len(cache.entries)
       /\ \A i \in 1..Len(cache.entries) :
            cache.entries[i].key # last'.key =>
              Stored(cache', cache.entries[i].key) = <<cache.entries[i]>>
       /\ Stored(cache', last'.key) # <<>>
       /\ Stored(cache', last'.key)[1].data = last'.value]_vars

(***************************************************************************)
(* The upstream requests of POST /mcp.                                     *)
(***************************************************************************)
\* the request is an mcp.callTool request that passes every check of the
\* handler: the envelope, the name, the lookup, the metadata of the tool
Accepted(rpc) ==
  /\ IsCallTool(rpc)
  /\ NamedTools(rpc.params.name.s) # {}
  /\ LET first == CHOOSE i \in NamedTools(rpc.params.name.s) :
                    \A j \in NamedTools(rpc.params.name.s) : i <= j
     IN tools[first].metadata.path # <<>> /\ tools[first].metadata.method # <<>>

(***************************************************************************)
(* C26: a POST /mcp request that is rejected before execution (bad         *)
(* envelope, unknown method, missing tool name, unknown tool, tool         *)
(* metadata without path or method) and an mcp.listTools request cause no  *)
(* upstream request; an accepted mcp.callTool causes exactly one.          *)
(***************************************************************************)
C26_UpstreamOnlyWhenAccepted ==
  call.kind = "mcp" =>
    Len(fetched) = (IF Accepted(call.rpc) THEN 1 ELSE 0)

\* an accepted mcp.callTool has been answered after its one upstream request
C26_Witness ==
  /\ call.kind = "mcp" /\ call.stage = "done"
  /\ Accepted(call.rpc)
  /\ Len(fetched) = 1
  /\ Len(sent) = 1 /\ sent[1].kind = "result"

(***************************************************************************)
(* C28, as stated: for the same tool path and method and the same argument *)
(* object, the mcp.callTool handler of POST /mcp and executeApiCall send   *)
(* the same upstream request: the same URL with its query string, the same *)
(* method, the same body or both none (the headers are the same constant   *)
(* object in both).  The two do not substitute the path parameters alike.  *)
(***************************************************************************)
C28_SameUpstreamRequest ==
  /\ (call.kind = "mcp" /\ Len(fetched) = 1) =>
       LET b == ExecBuild(Str(InvokedPath), Str(InvokedMethod),
                          ArgsObj(InvokedArgs))
       IN ~b.threw /\ fetched[1] = b.req
  /\ (call.kind = "exec" /\ Len(fetched) = 1
        /\ call.path.t = "string" /\ call.path.s # <<>> /\ call.method.s # <<>>) =>
       fetched[1] = McpBuild(call.path.s, call.method.s, InvokedArgs)

(***************************************************************************)
(* buildTools on one operation: the input schema for every combination of  *)
(* parameters and request body.                                            *)
(***************************************************************************)
\* largest number of parameters of an operation
MaxParams == 2

SchemaParams ==
  {Param(name, in, required, "string") :
     name \in {<<"id">>, <<"name">>}, in \in {"path", "query", "header"},
     required \in BOOLEAN}

ParamLists == UNION {[1..n -> SchemaParams] : n \in 0..MaxParams}

BodyInputs ==
  {NoBody, OtherBody}
    \cup {SchemaBody(props, hasRequired, required) :
            props \in {<<>>, <<[name |-> <<"name">>, type |-> "string"]>>,
                       <<[name |-> <<"name">>, type |-> "string"],
                         [name |-> <<"size">>, type |-> ""]>>},
            hasRequired \in BOOLEAN,
            required \in {<<>>, <<<<"name">>>>, <<<<"id">>>>, <<<<"name">>, <<"name">>>>}}

OperationInputs ==
  {Operation(Str(<<"op">>), parameters # <<>>, parameters, requestBody) :
     parameters \in ParamLists, requestBody \in BodyInputs}

\* what the schema of an operation leaves alone
offSchema == <<startup, serving, caching, paging, proxied, flights, sessions, np, timerDue>>

\* the body of the buildTools loop for one operation, down to inputSchema;
\* one operation of the document is looked at
BuildSchema ==
  /\ ~built.called
  /\ \E operation \in OperationInputs :
       built' = SchemaBuilt(TRUE, operation, OperationThrows(operation),
                      IF OperationThrows(operation) THEN InputSchema(<<>>, <<>>)
                      ELSE OperationSchema(operation))
  /\ UNCHANGED offSchema

SchemaNext == BuildSchema

SchemaSpec == Init /\ [][SchemaNext]_vars

(***************************************************************************)
(* C30, as stated: in every tool schema buildTools produces, each name of  *)
(* inputSchema.required is a key of inputSchema.properties and is listed   *)
(* at most once, for every combination of path parameters, query           *)
(* parameters and request-body schema.  The code pushes the name of every  *)
(* required parameter without looking for it in the list, and takes the    *)
(* required names of a body schema that are not among its properties.      *)
(***************************************************************************)
C30_RequiredAreProperties ==
  (built.called /\ ~built.threw) =>
    LET properties == built.inputSchema.properties
        required == built.inputSchema.required
    IN \A i \in 1..Len(required) :
         /\ \E j \in 1..Len(properties) : properties[j].name = required[i]
         /\ \A k \in 1..Len(required) : k # i => required[k] # required[i]

(***************************************************************************)
(* SSE sessions: GET /sse, POST /messages and the SIGINT handler.          *)
(* transports is the sequence of the own keys of this.transports in the    *)
(* order they were added.                                                  *)
(***************************************************************************)
\* largest number of SSE connections opened
MaxSessions == 2

\* the sessionId of the n-th transport: a fresh identifier
SessionIdOf(n) == <<"s">> \o Digits(n)

\* the keys this.transports, a plain object, inherits from Object.prototype
PrototypeKeys ==
  {<<"__defineGetter__">>, <<"__defineSetter__">>, <<"__lookupGetter__">>,
   <<"__lookupSetter__">>, <<"__proto__">>, <<"constructor">>, <<"hasOwnProperty">>,
   <<"isPrototypeOf">>, <<"propertyIsEnumerable">>, <<"toLocaleString">>,
   <<"toString">>, <<"valueOf">>}

\* the own keys of this.transports
Registered == {transports[i] : i \in 1..Len(transports)}

\* this.transports[sessionId]: "transport", "inherited" or "undefined"
TransportLookup(sessionId) ==
  CASE ToStr(sessionId) \in Registered -> "transport"
    [] ToStr(sessionId) \in PrototypeKeys -> "inherited"
    [] OTHER -> "undefined"

\* the sessionId of the query of a POST /messages request
SessionInputs ==
  {Str(SessionIdOf(n)) : n \in 0..MaxSessions}
    \cup {Str(<<"constructor">>), Str(<<"valueOf">>), Str(<<"__proto__">>), Undef}

\* what the session handlers leave alone, pc, exited and exitCode apart
offSessions == <<swaggerSpec, paths, tools, registered, buildTools, routes, listening,
                 errorLogged, serving, caching, paging, proxied, built, flights, np,
                 timerDue>>

\* GET /sse: a transport is made and stored under its sessionId
OpenSse ==
  /\ pc = "running"
  /\ opened < MaxSessions
  /\ opened' = opened + 1
  /\ transports' = Append(transports, SessionIdOf(opened + 1))
  /\ UNCHANGED <<posted, sigint, pc, exited, exitCode, offSessions>>

\* res.on('close'): delete this.transports[transport.sessionId]
CloseSse ==
  /\ pc = "running"
  /\ \E i \in 1..Len(transports) :
       transports' = SelectSeq(transports, LAMBDA k : k # transports[i])
  /\ UNCHANGED <<opened, posted, sigint, pc, exited, exitCode, offSessions>>

\* the POST /messages route: a transport handles the message and writes the
\* answer itself; an inherited value has no handlePostMessage, the TypeError
\* rejects the handler and Express passes it on as next(err)
Messages(sessionId) ==
  CASE TransportLookup(sessionId) = "transport" ->
         Posted(TRUE, sessionId, ToStr(sessionId), 0, 0)
    [] TransportLookup(sessionId) = "inherited" ->
         Posted(TRUE, sessionId, <<>>,
                NextError(Stack, LayerIndex(Stack, "POST /messages"),
                          Failure("transport.handlePostMessage is not a function",
                                  Undef)).status, 0)
    [] OTHER -> Posted(TRUE, sessionId, <<>>, 400, -32000)

PostMessage ==
  /\ pc = "running"
  /\ \E sessionId \in SessionInputs : posted' = Messages(sessionId)
  /\ UNCHANGED <<transports, opened, sigint, pc, exited, exitCode, offSessions>>

\* process.exit(code)
ProcessExit(code) ==
  /\ exited' = TRUE
  /\ exitCode' = code
  /\ pc' = "exited"

RECURSIVE NextKey(_)
\* for-in: a key deleted before it is visited is not visited
NextKey(keys) ==
  IF keys = <<>> \/ Head(keys) \in Registered THEN keys ELSE NextKey(Tail(keys))

\* SIGINT arrives: the handler runs up to its first await, or to process.exit
\* when no transport is registered
SigintHandler ==
  /\ pc # "exited"
  /\ sigint.pc = "idle"
  /\ IF transports = <<>>
     THEN /\ sigint' = Sigint("exited", <<>>, {}, {})
          /\ ProcessExit(0)
     ELSE /\ sigint' = Sigint("loop", transports, {}, Registered)
          /\ UNCHANGED <<pc, exited, exitCode>>
  /\ UNCHANGED <<transports, opened, posted, offSessions>>

\* await this.server.disconnect(transport) resolves: the loop goes on to the
\* next key, or the handler to process.exit(0)
DisconnectResolves ==
  /\ pc # "exited"
  /\ sigint.pc = "loop"
  /\ LET done == sigint.disconnected \cup {Head(sigint.keys)}
         rest == NextKey(Tail(sigint.keys))
     IN IF rest = <<>>
        THEN /\ sigint' = Sigint("exited", <<>>, done, sigint.atSignal)
             /\ ProcessExit(0)
        ELSE /\ sigint' = Sigint("loop", rest, done, sigint.atSignal)
             /\ UNCHANGED <<pc, exited, exitCode>>
  /\ UNCHANGED <<transports, opened, posted, offSessions>>

\* this.server.disconnect(transport) throws or rejects: the promise of the
\* handler rejects, nothing handles the rejection and the process ends with
\* code 1
DisconnectRejects ==
  /\ pc # "exited"
  /\ sigint.pc = "loop"
  /\ sigint' = Sigint("rejected", sigint.keys, sigint.disconnected, sigint.atSignal)
  /\ exited' = TRUE
  /\ exitCode' = 1
  /\ pc' = "exited"
  /\ UNCHANGED <<transports, opened, posted, offSessions>>

SessionNext ==
  \/ InitStart
  \/ FetchSwaggerFails
  \/ FetchSwagger
  \/ RunBuildTools
  \/ SetupExpressProxy
  \/ StartExpressServer
  \/ SetupSSEEndpoints
  \/ OpenSse
  \/ CloseSse
  \/ PostMessage
  \/ SigintHandler
  \/ DisconnectResolves
  \/ DisconnectRejects

SessionSpec == Init /\ [][SessionNext]_vars

(***************************************************************************)
(* C24, as stated: a session is registered under its sessionId when its    *)
(* SSE connection is opened; a message POSTed to /messages is handled only *)
(* by the transport registered under the sessionId it names, and a message *)
(* naming a sessionId that is not registered is answered with HTTP 400 and *)
(* JSON-RPC error -32000 without any transport handling it.  The lookup    *)
(* this.transports[sessionId] also finds what a plain object inherits.     *)
(***************************************************************************)
C24_SessionRouting ==
  [][/\ opened' # opened => SessionIdOf(opened') \in {transports'[i] : i \in 1..Len(transports')}
     /\ posted' # posted =>
          IF ToStr(posted'.sessionId) \in Registered
          THEN posted'.handledBy = ToStr(posted'.sessionId)
          ELSE /\ posted'.handledBy = <<>>
               /\ posted'.status = 400
               /\ posted'.code = -32000]_vars

(***************************************************************************)
(* C23, as stated: on SIGINT every session transport registered at that    *)
(* moment is disconnected before the process exits, and the process exits  *)
(* with code 0.  A disconnect that throws or rejects ends the handler      *)
(* before process.exit(0).                                                 *)
(***************************************************************************)
C23_SigintDisconnectsAll ==
  (exited /\ sigint.pc # "idle") =>
    /\ exitCode = 0
    /\ sigint.atSignal \subseteq sigint.disconnected

(***************************************************************************)
(* Concurrent invocations: several POST /mcp requests and executeApiCall   *)
(* calls are in flight at once, each with the constants of its own handler *)
(* activation.  An upstream either settles the fetch or never does.        *)
(***************************************************************************)
\* largest number of invocations in flight
MaxFlights == 2

\* an invocation in flight: kind "mcp", "exec", "tools" or "health", stage
\* "pending" or "done", the responses written, the value returned, the
\* request sent upstream, what the upstream did, and whether this upstream
\* never settles the fetch
Flight(kind, rpc, stage, sent_, returned_, upstream, outcome, hung) ==
  [kind |-> kind, rpc |-> rpc, stage |-> stage, sent |-> sent_, returned |-> returned_,
   upstream |-> upstream, outcome |-> outcome, hung |-> hung]

FlightArgs == {NoArgs, ArgsObj(<<Entry(<<"id">>, Str(<<"7">>))>>)}

\* the mcp.listTools and mcp.callTool requests in flight
FlightRpcs ==
  {Rpc(TRUE, Str(<<"2.0">>), Str(<<"mcp.listTools">>), NoParams, Str(<<"a">>))}
    \cup {Rpc(TRUE, Str(<<"2.0">>), Str(<<"mcp.callTool">>),
              Params(TRUE, name, arguments), Num(1)) :
            name \in {Str(tools[i].name) : i \in 1..Len(tools)} \cup {Str(<<"missing">>)},
            arguments \in FlightArgs}

\* upstream answers with bodies that differ
FlightOutcomes ==
  {Rejected, Outcome("response", 200, TRUE, "doc"), Outcome("response", 200, TRUE, "other"),
   Outcome("response", 500, FALSE, "")}

\* what the invocations in flight leave alone
offFlights == <<startup, serving, caching, paging, proxied, built, sessions, np, timerDue>>

\* POST /mcp up to its answer or to the await of fetch
McpFlight(rpc, list, hung) ==
  LET h == PostMcp(Stack, rpc, list)
  IN Flight("mcp", rpc, IF h.pending THEN "pending" ELSE "done", h.sent,
            NothingReturned, IF h.pending THEN <<h.upstream>> ELSE <<>>, NoOutcome,
            h.pending /\ hung)

\* executeApiCall up to its return or to the await of fetch
ExecFlight(path, method, args, hung) ==
  LET b == ExecBuild(path, method, args)
  IN Flight("exec", NoBodyRpc, IF b.threw THEN "done" ELSE "pending", <<>>,
            IF b.threw THEN ExecCaught(Err("type", 0)) ELSE NothingReturned,
            IF b.threw THEN <<>> ELSE <<b.req>>, NoOutcome, ~b.threw /\ hung)

\* a POST /mcp request, one of rpcs, arrives; hangs tells whether its upstream
\* may be one that never settles
McpArrives(rpcs, hangs) ==
  /\ pc = "running"
  /\ \E rpc \in rpcs, hung \in hangs :
       flights' = Append(flights, McpFlight(rpc, tools, hung))
  /\ UNCHANGED offFlights

FlightMcp ==
  /\ Len(flights) < MaxFlights
  /\ McpArrives(FlightRpcs, BOOLEAN)

FlightExec ==
  /\ pc = "running"
  /\ Len(flights) < MaxFlights
  /\ \E path \in PathInputs, args \in FlightArgs, hung \in BOOLEAN :
       flights' = Append(flights, ExecFlight(path, Str(<<"get">>), args, hung))
  /\ UNCHANGED offFlights

\* a variant in which the fetch of an invocation is settled only after the
\* invocations before it are over
AwaitsInOrder(fs, i) ==
  /\ fs[i].stage = "pending"
  /\ ~fs[i].hung
  /\ \A j \in 1..(i - 1) : fs[j].stage = "done"

\* await fetch(url, options): the invocation goes on when its own fetch is
\* settled, whatever the other invocations do
Awaits(fs, i) ==
  /\ fs[i].stage = "pending"
  /\ ~fs[i].hung

\* the rest of the handler after its fetch was settled with outcome o
FlightSettle(f, o) ==
  IF f.kind = "mcp"
  THEN [f EXCEPT !.stage = "done", !.outcome = o,
                 !.sent = Append(f.sent, McpResume(f.rpc, o))]
  ELSE [f EXCEPT !.stage = "done", !.outcome = o, !.returned = ExecSettle(o)]

\* the upstream settles the fetch of an invocation with one of outcomes
UpstreamSettles(outcomes) ==
  /\ \E i \in 1..Len(flights), o \in outcomes :
       /\ Awaits(flights, i)
       /\ flights' = [flights EXCEPT ![i] = FlightSettle(flights[i], o)]
  /\ UNCHANGED offFlights

FlightUpstream == UpstreamSettles(FlightOutcomes)

ConcNext ==
  \/ InitStart
  \/ FetchSwaggerFails
  \/ FetchSwagger
  \/ RunBuildTools
  \/ SetupExpressProxy
  \/ StartExpressServer
  \/ SetupSSEEndpoints
  \/ FlightMcp
  \/ FlightExec
  \/ FlightUpstream

ConcSpec == Init /\ [][ConcNext]_vars

\* an upstream that settles a fetch does so in the end
ConcLive == ConcSpec /\ WF_vars(FlightUpstream)

\* the text of the upstream body in what invocation f produced, "" if none
BodyIn(f) ==
  IF f.kind = "mcp"
  THEN IF f.sent # <<>> /\ f.sent[Len(f.sent)].envelope.content # <<>>
       THEN f.sent[Len(f.sent)].envelope.content[1].text.body ELSE ""
  ELSE IF f.returned.state = "returned" /\ f.returned.envelope.content # <<>>
       THEN f.returned.envelope.content[1].text.body ELSE ""

\* invocation i has produced its response
Completed(i) ==
  /\ i <= Len(flights)
  /\ flights[i].stage = "done"
  /\ IF flights[i].kind = "mcp" THEN Len(flights[i].sent) = 1
     ELSE flights[i].returned.state = "returned"

(***************************************************************************)
(* C22: concurrent tool invocations are independent.  An invocation whose  *)
(* upstream never settles stays pending for ever without a response; every *)
(* other invocation in flight completes with one response of its own; and  *)
(* the upstream body in a response is the body the upstream gave to that   *)
(* invocation.                                                             *)
(***************************************************************************)
C22_InvocationsIndependent ==
  /\ [](\A i \in 1..Len(flights) :
          /\ flights[i].hung =>
               /\ flights[i].stage = "pending"
               /\ flights[i].sent = <<>>
               /\ flights[i].returned = NothingReturned
          /\ flights[i].stage = "done" =>
               /\ Completed(i)
               /\ BodyIn(flights[i]) # "" =>
                    /\ flights[i].outcome.json
                    /\ BodyIn(flights[i]) = flights[i].outcome.body)
  /\ \A i \in 1..MaxFlights :
       (i <= Len(flights) /\ ~flights[i].hung) ~> Completed(i)

\* the first invocation hangs on its upstream, the second, issued after it,
\* has completed with the body of its own upstream answer
C22_Witness ==
  /\ Len(flights) = 2
  /\ flights[1].hung
  /\ flights[1].stage = "pending"
  /\ Completed(2)
  /\ flights[2].upstream # <<>>
  /\ BodyIn(flights[2]) = "other"

(***************************************************************************)
(* The started server under load: POST /mcp, GET /tools, GET /health and   *)
(* proxy requests arrive while earlier requests await their upstream, and  *)
(* the upstreams answer in any order.                                      *)
(***************************************************************************)
\* the requests in flight, of every kind
Load == Len(flights) + Len(proxied)

\* the POST /mcp requests of a client: mcp.listTools, and mcp.callTool of the
\* tools of the registry and of a tool that is not there
ServeRpcs ==
  {Rpc(TRUE, Str(<<"2.0">>), Str(<<"mcp.listTools">>), NoParams, id) :
     id \in {Str(<<"a">>), Undef}}
    \cup {Rpc(TRUE, Str(<<"2.0">>), Str(<<"mcp.callTool">>),
              Params(TRUE, name, NoArgs), Num(1)) :
            name \in {Str(tools[i].name) : i \in 1..Len(tools)} \cup {Str(<<"missing">>)}}

ServeMcp ==
  /\ Load < MaxFlights
  /\ McpArrives(ServeRpcs, {FALSE})

\* GET /tools arrives and is answered at once
ServeTools ==
  /\ pc = "running"
  /\ Load < MaxFlights
  /\ flights' = Append(flights,
       Flight("tools", NoBodyRpc, "done", <<ToolsAnswer(tools)>>, NothingReturned,
              <<>>, NoOutcome, FALSE))
  /\ UNCHANGED offFlights

\* GET /health arrives and is answered at once
ServeHealth ==
  /\ pc = "running"
  /\ Load < MaxFlights
  /\ flights' = Append(flights,
       Flight("health", NoBodyRpc, "done", <<HealthAnswer(tools)>>, NothingReturned,
              <<>>, NoOutcome, FALSE))
  /\ UNCHANGED offFlights

\* the upstream of a tool call rejects the fetch or answers it
ServeUpstream == UpstreamSettles({Rejected, Outcome("response", 200, TRUE, "doc")})

\* the client has the answer of an invocation
ServeDone ==
  /\ \E i \in 1..Len(flights) :
       /\ flights[i].stage = "done"
       /\ flights' = Without(flights, i)
  /\ UNCHANGED offFlights

\* a proxy request arrives
ServeProxy ==
  /\ Load < MaxFlights
  /\ ProxyRequest

ServeNext ==
  \/ InitStart
  \/ FetchSwaggerFails
  \/ FetchSwagger
  \/ RunBuildTools
  \/ SetupExpressProxy
  \/ StartExpressServer
  \/ SetupSSEEndpoints
  \/ ServeMcp
  \/ ServeTools
  \/ ServeHealth
  \/ ServeUpstream
  \/ ServeDone
  \/ ServeProxy
  \/ ProxyUpstream
  \/ ProxyUpstreamFails
  \/ ProxyDone

ServeSpec == Init /\ [][ServeNext]_vars

\* invocation f is an mcp.listTools request
IsListTools(f) ==
  /\ f.kind = "mcp"
  /\ f.rpc.jsonrpc = Str(<<"2.0">>)
  /\ f.rpc.method = Str(<<"mcp.listTools">>)

\* the registry is the list buildTools produced, and mcp.listTools, GET
\* /tools and GET /health have answered from it, whatever else is in flight
RegistryAsBuilt ==
  pc = "running" =>
    /\ tools = BuildTools(paths, FALSE).tools
    /\ \A i \in 1..Len(flights) :
         LET f == flights[i]
         IN /\ IsListTools(f) =>
                 /\ f.stage = "done"
                 /\ Len(f.sent) = 1
                 /\ f.sent[1].http = 200 /\ f.sent[1].kind = "result"
                 /\ f.sent[1].tools = BuildTools(paths, FALSE).tools
                 /\ f.sent[1].id = f.rpc.id
            /\ f.kind = "tools" => f.sent = <<ToolsAnswer(BuildTools(paths, FALSE).tools)>>
            /\ f.kind = "health" => f.sent = <<HealthAnswer(BuildTools(paths, FALSE).tools)>>

(***************************************************************************)
(* C20: after startup has completed no step modifies the tool registry:    *)
(* through every sequence and interleaving of mcp.listTools, mcp.callTool, *)
(* GET /tools, GET /health and proxy requests, with the upstream answers   *)
(* arriving in any order, it is the list buildTools produced, and every    *)
(* mcp.listTools response carries that list and the id of the request.     *)
(***************************************************************************)
C20_RegistryFixed ==
  /\ []RegistryAsBuilt
  /\ [][pc = "running" => tools' = tools /\ pc' = "running"]_vars

\* mcp.listTools has answered with a registry of two tools or more while an
\* mcp.callTool issued before it awaits its upstream, after a proxy request
\* has left a report in the cache
C20_Witness ==
  /\ pc = "running"
  /\ Len(flights) = 2
  /\ flights[1].kind = "mcp" /\ flights[1].stage = "pending"
  /\ IsListTools(flights[2])
  /\ Len(tools) >= 2
  /\ flights[2].sent[1].tools = tools
  /\ cache.entries # <<>>

====
